---- MODULE Spec2Model ----
(***************************************************************************)
(* Model of the daily avalanche scheduler (src/avalanche.py) together with *)
(* the cash-flow projector (src/cash_flow.py), the interest methods        *)
(* (src/interest.py) and the minimum-payment formulas                      *)
(* (src/minimum_payments.py).                                              *)
(*                                                                         *)
(* Money: Decimal values are integers counted in units of 1/2000 cent     *)
(* (Cent = 2000 units).  Every input amount is a multiple of half a cent   *)
(* and every APR a multiple of 36.5 %, so each product                     *)
(* principal * apr / 36500 * days of the source is a whole number of       *)
(* units and the integer arithmetic below equals the Decimal arithmetic.   *)
(* APRs are stored in half-percent units (36.5 % = 73).                    *)
(*                                                                         *)
(* Dates: a datetime.date is the number of days since 2025-01-01.          *)
(***************************************************************************)
EXTENDS Integers, Sequences, FiniteSets, TLC

\* ------------------------------------------------------------------------
\* Money

Cent == 2000
HalfCent == Cent \div 2
Dollar == 100 * Cent

Min2(a, b) == IF a <= b THEN a ELSE b
Max2(a, b) == IF a >= b THEN a ELSE b
Abs(a) == IF a < 0 THEN 0 - a ELSE a

\* A Python for-loop over seq[lo..hi] carrying the state v: Step(v, seq[k]) for
\* k = lo, lo+1, ..., hi in this order.  The range is halved to keep the
\* evaluation shallow; "v # v" is never true and only makes the carried state
\* be evaluated before the loop goes on.
RECURSIVE Loop(_, _, _, _, _)
Loop(Step(_, _), v, seq, lo, hi) ==
    IF lo > hi \/ v # v THEN v
    ELSE IF lo = hi THEN Step(v, seq[lo])
    ELSE Loop(Step, Loop(Step, v, seq, lo, (lo + hi) \div 2),
              seq, ((lo + hi) \div 2) + 1, hi)

\* list.sort(key=...): the stable sort of seq by the order Less on keys
\* (each element goes after the elements already placed that are not greater).
InsertSorted(sorted, x, Less(_, _)) ==
    LET k == Len(SelectSeq(sorted, LAMBDA e : ~Less(x, e)))
    IN  SubSeq(sorted, 1, k) \o <<x>> \o SubSeq(sorted, k + 1, Len(sorted))

StableSort(seq, Less(_, _)) ==
    Loop(LAMBDA acc, x : InsertSorted(acc, x, Less), <<>>, seq, 1, Len(seq))

\* Decimal.quantize(step, rounding=ROUND_HALF_UP): nearest multiple of step,
\* ties away from zero.
QuantizeHalfUp(x, step) ==
    LET q == ((Abs(x) + step \div 2) \div step) * step
    IN  IF x < 0 THEN 0 - q ELSE q

\* Decimal.quantize(step, rounding=ROUND_UP): away from zero.
QuantizeUp(x, step) ==
    LET q == ((Abs(x) + step - 1) \div step) * step
    IN  IF x < 0 THEN 0 - q ELSE q

QuantizeCent(x) == QuantizeHalfUp(x, Cent)

\* principal * apr / Decimal("36500") * n, apr in half-percent units.
\* principal is a multiple of HalfCent and apr a multiple of 73 (see header).
InterestFor(principal, apr, n) == ((principal \div HalfCent) * apr * n) \div 73

\* ------------------------------------------------------------------------
\* Dates (datetime.date, calendar.monthrange)

NoDate == -1

IsLeap(y) == (y % 4 = 0 /\ y % 100 # 0) \/ (y % 400 = 0)

MonthLen(y, m) ==
    IF m = 2 THEN (IF IsLeap(y) THEN 29 ELSE 28)
    ELSE IF m \in {4, 6, 9, 11} THEN 30 ELSE 31

YearLen(y) == IF IsLeap(y) THEN 366 ELSE 365

RECURSIVE DaysBeforeYear(_)
DaysBeforeYear(y) ==
    IF y <= 2025 THEN 0 ELSE DaysBeforeYear(y - 1) + YearLen(y - 1)

RECURSIVE DaysBeforeMonth(_, _)
DaysBeforeMonth(y, m) ==
    IF m <= 1 THEN 0 ELSE DaysBeforeMonth(y, m - 1) + MonthLen(y, m - 1)

MkDate(y, m, d) == DaysBeforeYear(y) + DaysBeforeMonth(y, m) + (d - 1)

RECURSIVE YearFrom(_, _)
YearFrom(y, o) == IF o < YearLen(y) THEN y ELSE YearFrom(y + 1, o - YearLen(y))
\* d.year
YearOf(o) == YearFrom(2025, o)

RECURSIVE MonthFrom(_, _, _)
MonthFrom(y, m, o) ==
    IF o < MonthLen(y, m) THEN m ELSE MonthFrom(y, m + 1, o - MonthLen(y, m))
\* The month and the day of the date o of year y.
MonthIn(y, o) == MonthFrom(y, 1, o - DaysBeforeYear(y))
DayIn(y, o) == o - MkDate(y, MonthIn(y, o), 1) + 1

\* d.month, d.day
MonthOf(o) == MonthIn(YearOf(o), o)
DayOf(o) == DayIn(YearOf(o), o)

\* monthrange(d.year, d.month)[1]
MonthLenIn(y, o) == MonthLen(y, MonthIn(y, o))
MonthLenOf(o) == MonthLenIn(YearOf(o), o)

\* date.replace(day=dd)
ReplaceDayIn(y, o, dd) == MkDate(y, MonthIn(y, o), dd)
ReplaceDay(o, dd) == ReplaceDayIn(YearOf(o), o, dd)

\* _add_month, lines 70-73: from d.day and the year and month computed,
\* from the fields of d, and from d.
AddMonthDate(year, month, d_day) ==
    MkDate(year, month, Min2(d_day, MonthLen(year, month)))
AddMonthFields(d_year, d_month, d_day) ==
    AddMonthDate(d_year + (d_month \div 12), (d_month % 12) + 1, d_day)
AddMonthIn(y, d) == AddMonthFields(y, MonthIn(y, d), DayIn(y, d))
AddMonth(d) == AddMonthIn(YearOf(d), d)

\* _advance_paycheck, the semi-monthly branch: lines 87-90 given next_month,
\* lines 85-90 given second_day.
SemiMonthlyIn(next_month, first_day) ==
    ReplaceDay(next_month, Min2(first_day, MonthLenOf(next_month)))
SemiMonthlyNextMonth(current, first_day, second_day) ==
    SemiMonthlyIn(AddMonth(ReplaceDay(current, 1)), first_day)
SemiMonthly(current, first_day, second_day) ==
    IF DayOf(current) = first_day /\ second_day # first_day
    THEN ReplaceDay(current, second_day)
    ELSE SemiMonthlyIn(AddMonth(ReplaceDay(current, 1)), first_day)

\* _advance_paycheck
AdvancePaycheck(current, freq, first_day) ==
    IF freq = "weekly" THEN current + 7
    ELSE IF freq = "biweekly" THEN current + 14
    ELSE IF freq = "semi-monthly"
    THEN SemiMonthly(current, first_day, Min2(first_day + 15, MonthLenOf(current)))
    ELSE AddMonth(current)

\* ------------------------------------------------------------------------
\* Event generation (_build_events)

Event(d, t, amt, nm, db) ==
    [date |-> d, type |-> t, amount |-> amt, name |-> nm, debt |-> db]

\* "while current < start: current = advance(current)"
RECURSIVE PaycheckFirst(_, _, _, _)
PaycheckFirst(current, start, freq, first_day) ==
    IF current < start
    THEN PaycheckFirst(AdvancePaycheck(current, freq, first_day), start, freq, first_day)
    ELSE current

\* "while current <= end: events.append(...); current = advance(current)"
RECURSIVE PaycheckEvents(_, _, _, _)
PaycheckEvents(p, current, end, first_day) ==
    IF current <= end
    THEN <<Event(current, "paycheck", p.amount, p.name, "")>>
         \o PaycheckEvents(p, AdvancePaycheck(current, p.frequency, first_day), end, first_day)
    ELSE <<>>

\* No roll forward: enumeration begins at the date given.
MonthlyFirstAsGiven(current, start) == current

\* "while current < start: current = _add_month(current)"
RECURSIVE MonthlyFirst(_, _)
MonthlyFirst(current, start) ==
    IF current < start THEN MonthlyFirst(AddMonth(current), start) ELSE current

RECURSIVE BillEvents(_, _, _)
BillEvents(b, current, end) ==
    IF current <= end
    THEN <<(IF b.debt # "" THEN Event(current, "debt_add", b.amount, b.name, b.debt)
                           ELSE Event(current, "bill", b.amount, b.name, ""))>>
         \o BillEvents(b, AddMonth(current), end)
    ELSE <<>>

RECURSIVE DebtMinEvents(_, _, _)
DebtMinEvents(d, current, end) ==
    IF current <= end
    THEN <<Event(current, "debt_min", d.minimum_payment, d.name, d.name)>>
         \o DebtMinEvents(d, AddMonth(current), end)
    ELSE <<>>

RECURSIVE Flatten(_)
Flatten(ss) == IF ss = <<>> THEN <<>> ELSE Head(ss) \o Flatten(Tail(ss))

\* list.sort(key=lambda e: e.date): stable sort by date.
SortByDate(es) == StableSort(es, LAMBDA a, b : a.date < b.date)

BuildEvents(paychecks, bills, goals, ds, start, end) ==
    LET pe == [k \in 1..Len(paychecks) |->
                 LET p == paychecks[k]
                     first_day == DayOf(p.date)
                 IN  PaycheckEvents(p, PaycheckFirst(p.date, start, p.frequency, first_day),
                                    end, first_day)]
        be == [k \in 1..Len(bills) |->
                 BillEvents(bills[k], MonthlyFirst(bills[k].date, start), end)]
        ge == [k \in 1..Len(goals) |->
                 IF start <= goals[k].date /\ goals[k].date <= end
                 THEN <<Event(goals[k].date, "goal", goals[k].amount, goals[k].name, "")>>
                 ELSE <<>>]
        de == [k \in 1..Len(ds) |->
                 IF ds[k].due_date = NoDate \/ ds[k].minimum_payment <= 0
                 THEN <<>>
                 ELSE DebtMinEvents(ds[k], MonthlyFirst(ds[k].due_date, start), end)]
    IN  SortByDate(Flatten(pe) \o Flatten(be) \o Flatten(ge) \o Flatten(de))

\* ------------------------------------------------------------------------
\* Debts (dataclass Debt) and the registries

NoArgs ==
    [unpaid_daily_cash |-> 0, interest_billed |-> 0, past_due |-> 0,
     financing_balance |-> 0, installment_due |-> 0]

\* Debt(...) as constructed at the start of daily_avalanche_schedule from one
\* input dictionary.
MkDebt(d) ==
    [name |-> d.name, balance |-> d.balance, apr |-> d.apr,
     minimum_payment |-> d.minimum_payment, due_date |-> d.due_date,
     paid_off_date |-> NoDate, interest_accrued |-> 0, interest_buffer |-> 0,
     interest_charges |-> 0, min_payment_formula |-> d.min_payment_formula,
     min_payment_args |-> d.min_payment_args,
     balance_subject_to_interest |-> d.balance, grace_charges |-> <<>>,
     interest_method |-> d.interest_method]

INTEREST_METHODS == {"credit_card", "apple_card"}
FORMULAS == {"credit_card", "apple_card"}

\* debt_lookup[name]
DebtIdx(ds, name) == CHOOSE k \in 1..Len(ds) : ds[k].name = name

\* "next_due = due; while next_due <= as_of: next_due = _add_month(next_due)"
RECURSIVE NextDueAfter(_, _)
NextDueAfter(due, as_of) ==
    IF due <= as_of THEN NextDueAfter(AddMonth(due), as_of) ELSE due

\* ------------------------------------------------------------------------
\* Interest methods (interest.py)

credit_card_add_charge(d, amount, ch_date) ==
    [d EXCEPT !.balance_subject_to_interest = @ + amount]

\* credit_card_daily with the interest taken on the whole balance, billed
\* interest included.
credit_card_daily_on_balance(d, current_date) ==
    IF d.balance > 0 /\ d.apr > 0
    THEN LET interest == InterestFor(d.balance, d.apr, 1)
         IN  [d EXCEPT !.interest_buffer = @ + interest,
                       !.interest_accrued = @ + interest]
    ELSE d

\* credit_card_daily with the day's interest charged to the balance at once
\* instead of buffered until month end.
credit_card_daily_compounding(d, current_date) ==
    IF d.balance_subject_to_interest > 0 /\ d.apr > 0
    THEN LET interest == InterestFor(d.balance_subject_to_interest, d.apr, 1)
         IN  [d EXCEPT !.balance = @ + interest,
                       !.interest_accrued = @ + interest]
    ELSE d

credit_card_daily(d, current_date) ==
    IF d.balance_subject_to_interest > 0 /\ d.apr > 0
    THEN LET interest == InterestFor(d.balance_subject_to_interest, d.apr, 1)
         IN  [d EXCEPT !.interest_buffer = @ + interest,
                       !.interest_accrued = @ + interest]
    ELSE d

\* credit_card_month_end leaving the billed interest in the buffer.
credit_card_month_end_keeping(d, current_date) ==
    IF d.interest_buffer > 0
    THEN << d, QuantizeCent(d.interest_buffer) >>
    ELSE << d, 0 >>

\* Returns <<debt, billed>>.
credit_card_month_end(d, current_date) ==
    IF d.interest_buffer > 0
    THEN << [d EXCEPT !.interest_buffer = 0], QuantizeCent(d.interest_buffer) >>
    ELSE << d, 0 >>

\* apple_card_add_charge without the grace period: every charge bears
\* interest from its first day.
apple_card_add_charge_no_grace(d, amount, ch_date) ==
    [d EXCEPT !.balance_subject_to_interest = @ + amount]

apple_card_add_charge(d, amount, ch_date) ==
    IF d.balance_subject_to_interest = 0
    THEN [d EXCEPT !.grace_charges = Append(@, <<ch_date, amount>>)]
    ELSE [d EXCEPT !.balance_subject_to_interest = @ + amount]

RECURSIVE GraceRetro(_, _, _)
GraceRetro(gc, apr, current_date) ==
    IF gc = <<>> THEN 0
    ELSE InterestFor(Head(gc)[2], apr, (current_date - Head(gc)[1]) + 1)
         + GraceRetro(Tail(gc), apr, current_date)

RECURSIVE GraceSum(_)
GraceSum(gc) == IF gc = <<>> THEN 0 ELSE Head(gc)[2] + GraceSum(Tail(gc))

\* GraceDue without "debt.grace_charges.clear()".
GraceDueListKept(d1, current_date) ==
    IF d1.due_date # NoDate /\ current_date = d1.due_date /\ d1.grace_charges # <<>>
    THEN LET retro == GraceRetro(d1.grace_charges, d1.apr, current_date)
         IN  [d1 EXCEPT !.interest_buffer = @ + retro,
                        !.interest_accrued = @ + retro,
                        !.balance_subject_to_interest = @ + GraceSum(d1.grace_charges),
                        !.due_date = AddMonth(d1.due_date)]
    ELSE d1

\* apple_card_daily after its call of credit_card_daily: on the due date the
\* unpaid grace charges start to bear interest, retroactively.
GraceDue(d1, current_date) ==
    IF d1.due_date # NoDate /\ current_date = d1.due_date /\ d1.grace_charges # <<>>
    THEN LET retro == GraceRetro(d1.grace_charges, d1.apr, current_date)
         IN  [d1 EXCEPT !.interest_buffer = @ + retro,
                        !.interest_accrued = @ + retro,
                        !.balance_subject_to_interest = @ + GraceSum(d1.grace_charges),
                        !.grace_charges = <<>>,
                        !.due_date = AddMonth(d1.due_date)]
    ELSE d1

apple_card_daily(d, current_date) ==
    GraceDue(credit_card_daily(d, current_date), current_date)

apple_card_month_end(d, current_date) == credit_card_month_end(d, current_date)

\* INTEREST_METHODS[debt.interest_method].add_charge / .daily / .month_end
AddCharge(d, amount, ch_date) ==
    IF d.interest_method = "apple_card"
    THEN apple_card_add_charge(d, amount, ch_date)
    ELSE credit_card_add_charge(d, amount, ch_date)

Daily(d, current_date) ==
    IF d.interest_method = "apple_card"
    THEN apple_card_daily(d, current_date)
    ELSE credit_card_daily(d, current_date)

MonthEndOf(d, current_date) ==
    IF d.interest_method = "apple_card"
    THEN apple_card_month_end(d, current_date)
    ELSE credit_card_month_end(d, current_date)

\* ------------------------------------------------------------------------
\* Minimum-payment formulas (minimum_payments.py)

\* x * num / den rounded half-up to cents, computed without overflowing:
\* x = q * (den * Cent) + a * Cent + b with a < den and b < Cent (den even).
MulDivCent(x, num, den) ==
    LET m == den * Cent
        q == x \div m
        a == (x % m) \div Cent
        b == x % Cent
    IN  (q * num + ((a * num + den \div 2 + (b * num) \div Cent) \div den)) * Cent

\* balance += balance * debt.apr / 36500 * days, if days > 0
ProjectedBalance(d, days) ==
    IF days > 0 THEN d.balance + InterestFor(d.balance, d.apr, days) ELSE d.balance

\* base = balance * (apr / 1200 + 0.01), apr in half-percent units
credit_card(d, as_of) ==
    MulDivCent(IF d.due_date # NoDate /\ d.apr > 0
               THEN ProjectedBalance(d, NextDueAfter(d.due_date, as_of) - as_of)
               ELSE d.balance,
               d.apr + 24, 2400)

\* apple_card with the base rounded to the nearest whole unit instead of up.
apple_card_half_up(d, as_of) ==
    LET a == d.min_payment_args
        total_balance == d.balance
        regular_balance == total_balance - a.financing_balance
        raw == (regular_balance - a.unpaid_daily_cash) \div 100 + a.unpaid_daily_cash
        base == Max2(25 * Dollar, QuantizeHalfUp(raw, Dollar))
        payment == base + a.interest_billed + a.installment_due + a.past_due
    IN  IF total_balance < payment THEN total_balance ELSE payment

apple_card(d, as_of) ==
    LET a == d.min_payment_args
        total_balance == d.balance
        regular_balance == total_balance - a.financing_balance
        raw == (regular_balance - a.unpaid_daily_cash) \div 100 + a.unpaid_daily_cash
        base == Max2(25 * Dollar, QuantizeUp(raw, Dollar))
        payment == base + a.interest_billed + a.installment_due + a.past_due
    IN  IF total_balance < payment THEN total_balance ELSE payment

\* compute_min_payment raises ValueError for an unregistered formula tag.
MinPaymentRaises(d) ==
    d.min_payment_formula # "" /\ d.min_payment_formula \notin FORMULAS

compute_min_payment(d, as_of) ==
    IF d.min_payment_formula = "credit_card" THEN credit_card(d, as_of)
    ELSE IF d.min_payment_formula = "apple_card" THEN apple_card(d, as_of)
    ELSE d.minimum_payment

\* ------------------------------------------------------------------------
\* Applying a payment to a debt (avalanche.py 395-413 and 505-523)

\* The FIFO loop over grace_charges; returns the remaining list.
RECURSIVE PayGrace(_, _)
PayGrace(gc, remaining) ==
    IF remaining > 0 /\ gc # <<>>
    THEN LET amt     == Head(gc)[2]
             applied == Min2(remaining, amt)
         IN  IF amt - applied = 0
             THEN PayGrace(Tail(gc), remaining - applied)
             ELSE PayGrace(<< <<Head(gc)[1], amt - applied>> >> \o Tail(gc),
                           remaining - applied)
    ELSE gc

\* StampPaidOff without the "paid_off_date is None" test.
StampPaidOffAlways(d, on) ==
    IF d.balance <= 0 THEN [d EXCEPT !.paid_off_date = on] ELSE d

\* if debt.balance <= 0 and debt.paid_off_date is None (lines 412-413, 522-523)
StampPaidOff(d, on) ==
    IF d.balance <= 0 /\ d.paid_off_date = NoDate
    THEN [d EXCEPT !.paid_off_date = on]
    ELSE d

\* ApplyPayment without "debt.balance -= payment_amount".
ApplyPaymentBalanceKept(d, payment, on) ==
    LET interest_pay  == Min2(payment, d.interest_charges)
        rem1          == payment - interest_pay
        principal_pay == Min2(rem1, d.balance_subject_to_interest)
        rem2          == rem1 - principal_pay
        d1 == [d EXCEPT !.interest_charges = @ - interest_pay,
                        !.balance_subject_to_interest = @ - principal_pay,
                        !.grace_charges = PayGrace(@, rem2)]
    IN  StampPaidOff(d1, on)

\* ApplyPayment with the principal served before the billed interest.
ApplyPaymentPrincipalFirst(d, payment, on) ==
    LET principal_pay == Min2(payment, d.balance_subject_to_interest)
        rem1          == payment - principal_pay
        interest_pay  == Min2(rem1, d.interest_charges)
        rem2          == rem1 - interest_pay
        d1 == [d EXCEPT !.balance = @ - payment,
                        !.interest_charges = @ - interest_pay,
                        !.balance_subject_to_interest = @ - principal_pay,
                        !.grace_charges = PayGrace(@, rem2)]
    IN  StampPaidOff(d1, on)

ApplyPayment(d, payment, on) ==
    LET interest_pay  == Min2(payment, d.interest_charges)
        rem1          == payment - interest_pay
        principal_pay == Min2(rem1, d.balance_subject_to_interest)
        rem2          == rem1 - principal_pay
        d1 == [d EXCEPT !.balance = @ - payment,
                        !.interest_charges = @ - interest_pay,
                        !.balance_subject_to_interest = @ - principal_pay,
                        !.grace_charges = PayGrace(@, rem2)]
    IN  StampPaidOff(d1, on)

\* ------------------------------------------------------------------------
\* Cash-flow projector (cash_flow.py)

\* CashKeyLess on the date alone: flows of one day stay in list order.
CashKeyByDate(a, b) == a.date < b.date

\* events.sort(key=lambda e: (e.date, e.amount < 0)): stable.
CashKeyLess(a, b) ==
    \/ a.date < b.date
    \/ a.date = b.date /\ ~(a.amount < 0) /\ (b.amount < 0)

SortCash(es) == StableSort(es, CashKeyLess)

\* cash_flow._build_events: bills negated, all amounts quantized to cents.
\* The dates travel as ISO strings (isoformat / strptime), which give back
\* the same calendar day.
CashEvents(bills, incomes) ==
    SortCash([k \in 1..Len(bills) |->
                 [date |-> bills[k].date, amount |-> 0 - QuantizeCent(bills[k].amount)]]
             \o
             [k \in 1..Len(incomes) |->
                 [date |-> incomes[k].date, amount |-> QuantizeCent(incomes[k].amount)]])

\* One iteration of the loop of projected_min_balance;
\* p = [running, min_balance, negative_date].
ProjectStep(p, event) ==
    LET r == QuantizeCent(p.running + event.amount)
    IN  [running |-> r,
         min_balance |-> IF r < p.min_balance THEN r ELSE p.min_balance,
         negative_date |-> IF p.negative_date = NoDate /\ r < 0 THEN event.date
                                                               ELSE p.negative_date]

\* The loop of projected_min_balance over the sorted events evs, from the
\* quantized balance b.
ProjectOver(b, evs) ==
    Loop(ProjectStep, [running |-> b, min_balance |-> b, negative_date |-> NoDate],
         evs, 1, Len(evs))

\* return min_balance, negative_date
MinAndDate(p) == <<p.min_balance, p.negative_date>>

\* Returns <<min_balance, negative_date>>.
projected_min_balance(initial_balance, bills, incomes) ==
    MinAndDate(ProjectOver(QuantizeCent(initial_balance), CashEvents(bills, incomes)))

max_safe_payment(initial_balance, bills, incomes) ==
    Max2(0, QuantizeCent(projected_min_balance(initial_balance, bills, incomes)[1]))

\* ------------------------------------------------------------------------
\* The remaining-event view of the scheduler (avalanche.py 432-485)
\*
\* The loop also keeps simulated_interest, which it reads only to update
\* simulated_interest itself: no bill, income, simulated balance or pending
\* minimum depends on it, so it is left out of the view.

\* temp_debt of line 461 and the minimum recomputed from it.
PendingMin(d, sim_balance, on) ==
    compute_min_payment(
        [d EXCEPT !.balance = sim_balance, !.minimum_payment = 0,
                  !.balance_subject_to_interest = sim_balance,
                  !.paid_off_date = NoDate, !.interest_accrued = 0,
                  !.interest_buffer = 0, !.interest_charges = 0,
                  !.grace_charges = <<>>, !.interest_method = "credit_card"],
        on)

\* v = [bills, incomes, sim (name -> simulated balance),
\*      pending_keys, pending (the dict pending_min: its keys and values)]
FutureStep(ds, v, fev) ==
    IF fev.type = "paycheck"
    THEN [v EXCEPT !.incomes = Append(@, [amount |-> fev.amount, date |-> fev.date])]
    ELSE IF fev.type = "debt_add"
    THEN LET nb == v.sim[fev.debt] + fev.amount
             pm == PendingMin(ds[DebtIdx(ds, fev.debt)], nb, fev.date)
         IN  [v EXCEPT !.sim[fev.debt] = nb,
                       !.pending_keys = @ \cup {fev.debt},
                       !.pending[fev.debt] = pm]
    ELSE IF fev.type = "debt_min"
    THEN LET name == IF fev.debt # "" THEN fev.debt ELSE fev.name
         IN  IF v.sim[name] <= 0 THEN v
             ELSE LET amount == IF name \in v.pending_keys
                                THEN v.pending[name] ELSE fev.amount
                  IN  [v EXCEPT
                         !.bills = Append(@, [amount |-> amount, date |-> fev.date]),
                         !.pending_keys = @ \ {name},
                         !.sim[name] = Max2(0, @ - amount)]
    ELSE [v EXCEPT !.bills = Append(@, [amount |-> fev.amount, date |-> fev.date])]

DebtNames(ds) == {ds[k].name : k \in 1..Len(ds)}

\* future_bills / future_incomes built from events[i:]
FutureView(ds, evs, i) ==
    Loop(LAMBDA v, fev : FutureStep(ds, v, fev),
         [bills |-> <<>>, incomes |-> <<>>,
          sim |-> [n \in DebtNames(ds) |-> ds[DebtIdx(ds, n)].balance],
          pending_keys |-> {},
          pending |-> [n \in DebtNames(ds) |-> 0]],
         evs, i + 1, Len(evs))

\* compute_min_payment raising inside the view (an unregistered formula on a
\* debt that has a future debt_add)
FutureRaises(ds, evs, i) ==
    \E k \in (i + 1)..Len(evs) :
        evs[k].type = "debt_add" /\ MinPaymentRaises(ds[DebtIdx(ds, evs[k].debt)])

\* AvalancheTarget with ties resolved to the last debt of highest APR.
AvalancheTargetLast(ds) ==
    LET active == {k \in 1..Len(ds) : ds[k].balance > 0}
    IN  IF active = {} THEN 0
        ELSE CHOOSE k \in active :
                 /\ \A j \in active : ds[j].apr <= ds[k].apr
                 /\ \A j \in active : j > k => ds[j].apr < ds[k].apr

\* max(active_debts, key=lambda d: d.apr): the first debt of highest APR
\* among those with balance > 0; 0 when there is none.
AvalancheTarget(ds) ==
    LET active == {k \in 1..Len(ds) : ds[k].balance > 0}
    IN  IF active = {} THEN 0
        ELSE CHOOSE k \in active :
                 /\ \A j \in active : ds[j].apr <= ds[k].apr
                 /\ \A j \in active : j < k => ds[j].apr < ds[k].apr

\* ------------------------------------------------------------------------
\* One invocation of daily_avalanche_schedule, as a record r of its locals:
\*   start, days, debug                      the call's date and arguments
\*   balance, debts, events, i, current_date, schedule, negative_hit,
\*   paychecks_today, others_today            the locals of the day loop
\*   pc         position: "day" (line 302), "paychecks" (314), "others" (327),
\*              "project" (432), "accrue" (536), "month_end" (540),
\*              "done" (618), "raised" (417/492), "error" (KeyError/ValueError
\*              of a registry lookup)
\*   raised_on  the date named by the shortfall error

LookaheadDays == 365

EndOf(r) == r.start + r.days
LookaheadEnd(start, days) == Max2(start + days, start + LookaheadDays)

LogEntry(d, t, desc, amt, bal) ==
    [date |-> d, type |-> t, description |-> desc, amount |-> amt, balance |-> bal]

\* PhaseOf with the day's other events taken before its paychecks.
PhaseOthersFirst(pt, ot) ==
    IF ot # <<>> THEN "others" ELSE IF pt # <<>> THEN "paychecks" ELSE "project"

\* "Process income first" (313), "Then pay bills or minimum debt payments"
\* (326), then the projection (432).
PhaseOf(pt, ot) ==
    IF pt # <<>> THEN "paychecks" ELSE IF ot # <<>> THEN "others" ELSE "project"

\* Lines 259-301.
InitRun(inp) ==
    LET ds == [k \in 1..Len(inp.debts_input) |-> MkDebt(inp.debts_input[k])]
    IN  [start |-> inp.start, days |-> inp.days, debug |-> inp.debug,
         balance |-> inp.starting_balance,
         debts |-> ds,
         events |-> BuildEvents(inp.paychecks, inp.bills, inp.goals, ds, inp.start,
                                LookaheadEnd(inp.start, inp.days)),
         i |-> 0, current_date |-> inp.start, schedule |-> <<>>,
         negative_hit |-> NoDate, paychecks_today |-> <<>>, others_today |-> <<>>,
         pc |-> "day", raised_on |-> NoDate]

\* Lines 303-311: the events of current_date, split into paychecks and others.
RECURSIVE TodayCount(_, _, _)
TodayCount(evs, i, today) ==
    IF i < Len(evs) /\ evs[i + 1].date = today
    THEN 1 + TodayCount(evs, i + 1, today) ELSE 0

\* The position after the events collected or applied so far.
Positioned(r) == [r EXCEPT !.pc = PhaseOf(r.paychecks_today, r.others_today)]

\* Lines 303-311, for the n events of current_date.
Collect(r, n) ==
    Positioned([r EXCEPT
        !.i = @ + n,
        !.paychecks_today = SelectSeq(SubSeq(r.events, r.i + 1, r.i + n),
                                      LAMBDA e : e.type = "paycheck"),
        !.others_today = SelectSeq(SubSeq(r.events, r.i + 1, r.i + n),
                                   LAMBDA e : e.type # "paycheck")])

DoStartDay(r) == Collect(r, TodayCount(r.events, r.i, r.current_date))

\* Line 618: the while loop ends and the function returns.
DoReturn(r) == [r EXCEPT !.pc = "done"]

\* DoPaycheck with the entry written before the balance is raised.
DoPaycheckLoggedFirst(r) ==
    LET ev == Head(r.paychecks_today)
    IN  [r EXCEPT !.balance = @ + ev.amount,
                  !.schedule = Append(@, LogEntry(ev.date, "paycheck", <<ev.name>>,
                                                  ev.amount, r.balance)),
                  !.paychecks_today = Tail(@),
                  !.pc = PhaseOf(Tail(r.paychecks_today), r.others_today)]

\* Lines 314-324.
DoPaycheck(r) ==
    LET ev == Head(r.paychecks_today)
        nb == r.balance + ev.amount
    IN  [r EXCEPT !.balance = nb,
                  !.schedule = Append(@, LogEntry(ev.date, "paycheck", <<ev.name>>,
                                                  ev.amount, nb)),
                  !.paychecks_today = Tail(@),
                  !.pc = PhaseOf(Tail(r.paychecks_today), r.others_today)]

\* PatchMin with the new minimum also written to the debt's debt_min events
\* of later due dates.
PatchMinAllLater(evs, i, name, next_due, new_min) ==
    LET Mine(j) == /\ evs[j].type = "debt_min" /\ evs[j].date >= next_due
                   /\ (IF evs[j].debt # "" THEN evs[j].debt ELSE evs[j].name) = name
    IN  IF \E j \in (i + 1)..Len(evs) : Mine(j)
        THEN [j \in DOMAIN evs |->
                 IF j > i /\ Mine(j) THEN [evs[j] EXCEPT !.amount = new_min] ELSE evs[j]]
        ELSE Append(evs, Event(next_due, "debt_min", new_min, name, name))

\* PatchMin with a new event appended instead of inserted in date order.
PatchMinAppended(evs, i, name, next_due, new_min) ==
    LET Match(j) == /\ evs[j].date = next_due /\ evs[j].type = "debt_min"
                    /\ (IF evs[j].debt # "" THEN evs[j].debt ELSE evs[j].name) = name
        found == {j \in (i + 1)..Len(evs) : Match(j)}
    IN  IF found = {}
        THEN Append(evs, Event(next_due, "debt_min", new_min, name, name))
        ELSE [evs EXCEPT ![CHOOSE x \in found : \A y \in found : x <= y].amount = new_min]

\* Lines 339-376 and 553-589: rewrite the debt_min event of (name, next_due)
\* among events[i:], or insert one in date order, or append it.
PatchMin(evs, i, name, next_due, new_min) ==
    LET Match(j) == /\ evs[j].date = next_due /\ evs[j].type = "debt_min"
                    /\ (IF evs[j].debt # "" THEN evs[j].debt ELSE evs[j].name) = name
        stop == {j \in (i + 1)..Len(evs) : Match(j) \/ evs[j].date > next_due}
        new  == Event(next_due, "debt_min", new_min, name, name)
    IN  IF stop = {} THEN Append(evs, new)
        ELSE LET j == CHOOSE x \in stop : \A y \in stop : x <= y
             IN  IF Match(j) THEN [evs EXCEPT ![j].amount = new_min]
                 ELSE SubSeq(evs, 1, j - 1) \o <<new>> \o SubSeq(evs, j, Len(evs))

\* SetMinimum without the patch of the event list.
SetMinimumFieldOnly(d, evs, i, current_date, new_min) ==
    IF d.due_date # NoDate /\ new_min > 0
    THEN << [d EXCEPT !.minimum_payment = new_min], evs >>
    ELSE << d, evs >>

\* Lines 337-376 and 551-589: "if debt.due_date and new_min > 0".
\* Returns <<debt, events>>.
SetMinimum(d, evs, i, current_date, new_min) ==
    IF d.due_date # NoDate /\ new_min > 0
    THEN << [d EXCEPT !.minimum_payment = new_min],
            PatchMin(evs, i, d.name, NextDueAfter(d.due_date, current_date), new_min) >>
    ELSE << d, evs >>

\* Lines 336-376 and 550-589: recompute the minimum and patch the events.
\* Returns <<debt, events>>.
Reminimum(d, evs, i, current_date) ==
    SetMinimum(d, evs, i, current_date, compute_min_payment(d, current_date))

\* DebtAdded with the charge also taken out of the cash balance, as a bill
\* not linked to a debt is.
DebtAddedFromCash(r, ev, k, re) ==
    [r EXCEPT !.debts = [@ EXCEPT ![k] = re[1]],
              !.events = re[2],
              !.balance = @ - ev.amount,
              !.schedule = Append(@, LogEntry(ev.date, ev.type, <<ev.name>>,
                                              ev.amount, r.balance - ev.amount)),
              !.others_today = Tail(@),
              !.pc = PhaseOf(<<>>, Tail(r.others_today))]

\* Lines 378-387, with re the <<debt, events>> of lines 329-376.
DebtAdded(r, ev, k, re) ==
    [r EXCEPT !.debts = [@ EXCEPT ![k] = re[1]],
              !.events = re[2],
              !.schedule = Append(@, LogEntry(ev.date, ev.type, <<ev.name>>,
                                              ev.amount, r.balance)),
              !.others_today = Tail(@),
              !.pc = PhaseOf(<<>>, Tail(r.others_today))]

\* Lines 328-387 for the event ev and the debt of index k.
DebtAdd(r, ev, k) ==
    IF r.debts[k].interest_method \notin INTEREST_METHODS \/ MinPaymentRaises(r.debts[k])
    THEN [r EXCEPT !.pc = "error"]
    ELSE DebtAdded(r, ev, k,
                   Reminimum(AddCharge([r.debts[k] EXCEPT !.balance = @ + ev.amount],
                                       ev.amount, ev.date),
                             r.events, r.i, r.current_date))

\* Lines 328-387.
DoDebtAdd(r) ==
    DebtAdd(r, Head(r.others_today), DebtIdx(r.debts, Head(r.others_today).debt))

\* PayCash without the "negative_hit is None" test: a later shortfall
\* overwrites the recorded date.
PayCashLastHit(r, ev, payment_amount, ds) ==
    LET nb == r.balance - payment_amount
    IN  IF nb < 0 /\ ~r.debug
        THEN [r EXCEPT !.debts = ds, !.balance = nb, !.pc = "raised",
                       !.raised_on = ev.date]
        ELSE [r EXCEPT !.debts = ds, !.balance = nb,
                       !.negative_hit = IF nb < 0 THEN ev.date ELSE @,
                       !.schedule = Append(@, LogEntry(ev.date, ev.type, <<ev.name>>,
                                                       0 - payment_amount, nb)),
                       !.others_today = Tail(@),
                       !.pc = PhaseOf(<<>>, Tail(r.others_today))]

\* Lines 414-430: the cash side of a bill, goal or debt_min.
PayCash(r, ev, payment_amount, ds) ==
    LET nb == r.balance - payment_amount
    IN  IF nb < 0 /\ ~r.debug
        THEN [r EXCEPT !.debts = ds, !.balance = nb, !.pc = "raised",
                       !.raised_on = ev.date]
        ELSE [r EXCEPT !.debts = ds, !.balance = nb,
                       !.negative_hit = IF nb < 0 /\ @ = NoDate THEN ev.date ELSE @,
                       !.schedule = Append(@, LogEntry(ev.date, ev.type, <<ev.name>>,
                                                       0 - payment_amount, nb)),
                       !.others_today = Tail(@),
                       !.pc = PhaseOf(<<>>, Tail(r.others_today))]

\* MinPaymentDue without the cap at the debt's balance.
MinPaymentUncapped(amount, debt_balance) == amount

\* min(ev.amount, debt.balance), line 392
MinPaymentDue(amount, debt_balance) == Min2(amount, debt_balance)

\* Lines 389-430, ev.type = "debt_min".
DoDebtMin(r) ==
    LET ev == Head(r.others_today)
        k  == DebtIdx(r.debts, IF ev.debt # "" THEN ev.debt ELSE ev.name)
        payment_amount == MinPaymentDue(ev.amount, r.debts[k].balance)
    IN  IF payment_amount <= 0
        THEN [r EXCEPT !.others_today = Tail(@),
                       !.pc = PhaseOf(<<>>, Tail(r.others_today))]
        ELSE PayCash(r, ev, payment_amount,
                     [r.debts EXCEPT ![k] = ApplyPayment(@, payment_amount, ev.date)])

\* Lines 389, 414-430, ev.type is "bill" or "goal".
DoBill(r) == PayCash(r, Head(r.others_today), Head(r.others_today).amount, r.debts)

\* safe = max(Decimal("0"), min_balance), line 497
SafeAmount(min_balance) == Max2(0, min_balance)

\* ExtraAmount without the cap at the target's balance.
ExtraAmountUncapped(safe, debt_balance) == safe

\* payment = min(safe, target.balance), line 503
ExtraAmount(safe, debt_balance) == Min2(safe, debt_balance)

\* Lines 504-533: "if payment > 0".
PayExtra(r, t, payment) ==
    IF payment > 0
    THEN [r EXCEPT
            !.debts = [@ EXCEPT ![t] = ApplyPayment(@, payment, r.current_date)],
            !.balance = @ - payment,
            !.schedule = Append(@, LogEntry(r.current_date, "extra",
                                            <<"Extra payment to ", r.debts[t].name>>,
                                            0 - payment, r.balance - payment))]
    ELSE r

\* Lines 499-533, with t the index of the target (0: no active debt).
ExtraTo(r, safe, t) ==
    IF safe > 0 /\ t # 0
    THEN PayExtra(r, t, ExtraAmount(safe, r.debts[t].balance))
    ELSE r

\* Lines 499-533.
ExtraPayment(r, safe) == ExtraTo(r, safe, AvalancheTarget(r.debts))

\* Lines 490-533, with hit the test "negative_date is not None and
\* negative_date <= end".
Projected(r, min_balance, negative_date, hit) ==
    IF hit /\ ~r.debug
    THEN [r EXCEPT !.pc = "raised", !.raised_on = negative_date]
    ELSE ExtraPayment([r EXCEPT !.negative_hit =
                                    IF hit /\ @ = NoDate THEN negative_date ELSE @,
                                !.pc = "accrue"],
                      SafeAmount(min_balance))

\* Lines 487-533, with pm the result of projected_min_balance, and with v the
\* view of the remaining events.
ProjectFrom(r, pm) ==
    Projected(r, pm[1], pm[2], pm[2] # NoDate /\ pm[2] <= EndOf(r))
ProjectView(r, v) ==
    ProjectFrom(r, projected_min_balance(r.balance, v.bills, v.incomes))

\* Lines 432-533.
DoProject(r) ==
    IF FutureRaises(r.debts, r.events, r.i) THEN [r EXCEPT !.pc = "error"]
    ELSE ProjectView(r, FutureView(r.debts, r.events, r.i))

IsMonthEnd(d) == MonthOf(d + 1) # MonthOf(d)

\* AfterAccrual without "current_date += timedelta(days=1)".
AfterAccrualSameDay(r) ==
    IF IsMonthEnd(r.current_date)
    THEN [r EXCEPT !.pc = "month_end"]
    ELSE [r EXCEPT !.pc = "day"]

\* Lines 539 and 616: on to the month-end block, or to the next day.
AfterAccrual(r) ==
    IF IsMonthEnd(r.current_date)
    THEN [r EXCEPT !.pc = "month_end"]
    ELSE [r EXCEPT !.pc = "day", !.current_date = @ + 1]

\* Lines 536-537, then 616 unless the month-end block runs.
DoAccrue(r) ==
    IF \E k \in 1..Len(r.debts) : r.debts[k].interest_method \notin INTEREST_METHODS
    THEN [r EXCEPT !.pc = "error"]
    ELSE AfterAccrual([r EXCEPT !.debts = [k \in 1..Len(r.debts) |->
                                              Daily(r.debts[k], r.current_date)]])

\* Billed with the interest also taken out of the cash balance.
BilledFromCash(r, k, billed, re) ==
    [r EXCEPT !.debts = [@ EXCEPT ![k] = re[1]],
              !.events = re[2],
              !.balance = @ - billed,
              !.schedule = Append(@, LogEntry(r.current_date, "debt_add",
                                              <<re[1].name, " interest">>,
                                              billed, r.balance - billed))]

\* Lines 591-599, with re the <<debt, events>> of lines 550-589.
Billed(r, k, billed, re) ==
    [r EXCEPT !.debts = [@ EXCEPT ![k] = re[1]],
              !.events = re[2],
              !.schedule = Append(@, LogEntry(r.current_date, "debt_add",
                                              <<re[1].name, " interest">>,
                                              billed, r.balance))]

\* Lines 550-599, with d2 the debt after lines 544-547.
BillInterest(r, k, billed, d2) ==
    IF MinPaymentRaises(d2) THEN [r EXCEPT !.pc = "error"]
    ELSE Billed(r, k, billed, Reminimum(d2, r.events, r.i, r.current_date))

\* Lines 541-599 for the debt of index k, with me the <<debt, billed>> of
\* its month_end.
MonthEndDebt(r, k, me) ==
    IF me[2] > 0
    THEN BillInterest(r, k, me[2],
                      [me[1] EXCEPT !.balance = @ + me[2],
                                    !.interest_charges = @ + me[2],
                                    !.min_payment_args.interest_billed = me[2]])
    ELSE [r EXCEPT !.debts = [@ EXCEPT ![k] = me[1]]]

\* Lines 541-599 for debts k..Len(debts), in order.
RECURSIVE MonthEndFrom(_, _)
MonthEndFrom(r, k) ==
    IF k > Len(r.debts) \/ r.pc = "error" THEN r
    ELSE MonthEndFrom(MonthEndDebt(r, k, MonthEndOf(r.debts[k], r.current_date)), k + 1)

\* Line 616 after the month-end block.
NextDay(r) ==
    IF r.pc = "error" THEN r ELSE [r EXCEPT !.pc = "day", !.current_date = @ + 1]

\* Lines 540-599, then 616.
DoMonthEnd(r) == NextDay(MonthEndFrom(r, 1))

Running(r) == r.pc \notin {"done", "raised", "error"}

HeadType(r) == Head(r.others_today).type

\* ------------------------------------------------------------------------
\* State

VARIABLES
    inputs,           \* the arguments of the call under way and the value of
                      \* date.today()
    balance, debts, events, i, current_date, schedule, negative_hit,
    paychecks_today, others_today, pc, raised_on,
    again,            \* the arguments of the second call: those of the first
                      \* but one (debug, or days), as the tests make two calls
                      \* to compare them
    first,            \* what the first call returned or raised, once it has
    zeroed,           \* history, per debt: when its balance last came down to
                      \* zero, what has raised it since, and under which of
                      \* these a debt_min was then logged for it
    probe             \* a direct call of one of the helper functions: its
                      \* name, its arguments and, once it has returned, its
                      \* result

vars == <<inputs, balance, debts, events, i, current_date, schedule, negative_hit,
          paychecks_today, others_today, pc, raised_on, again, first, zeroed,
          probe>>

\* The invocation under way, as a record.
Cur ==
    [start |-> inputs.start, days |-> inputs.days, debug |-> inputs.debug,
     balance |-> balance, debts |-> debts, events |-> events, i |-> i,
     current_date |-> current_date, schedule |-> schedule,
     negative_hit |-> negative_hit, paychecks_today |-> paychecks_today,
     others_today |-> others_today, pc |-> pc, raised_on |-> raised_on]

\* The entries a step r0 -> r1 appended to the schedule.
Logged(r0, r1) == SubSeq(r1.schedule, Len(r0.schedule) + 1, Len(r1.schedule))

NeverZeroed == [on |-> NoDate, added |-> FALSE, billed |-> FALSE, mins |-> {}]

\* The history of debt k after a step r0 -> r1 that logged the entries lg,
\* with z1 the history once a debt_min logged by the step is noted.
\*   on      the date its balance last came down to zero (NoDate: never)
\*   added   a debt_add event has been applied to it since
\*   billed  month-end interest has been billed to it since
\*   mins    the <<added, billed>> under which a debt_min entry was logged
\*           for it on a date after `on`
ZeroedNext(z1, k, r0, r1, lg) ==
    IF r0.debts[k].balance > 0 /\ r1.debts[k].balance <= 0
    THEN [z1 EXCEPT !.on = r0.current_date, !.added = FALSE, !.billed = FALSE]
    ELSE [z1 EXCEPT
            !.added = @ \/ (/\ r0.pc = "others" /\ r1.pc # "error"
                            /\ HeadType(r0) = "debt_add"
                            /\ DebtIdx(r0.debts, Head(r0.others_today).debt) = k),
            !.billed = @ \/ (/\ r0.pc = "month_end"
                             /\ \E e \in 1..Len(lg) :
                                   lg[e].description = <<r0.debts[k].name, " interest">>)]

ZeroedLogged(z, k, r0, r1, lg) ==
    ZeroedNext(IF /\ z.on # NoDate /\ z.on < r0.current_date
                  /\ \E e \in 1..Len(lg) : /\ lg[e].type = "debt_min"
                                           /\ lg[e].description = <<r0.debts[k].name>>
               THEN [z EXCEPT !.mins = @ \cup {<<z.added, z.billed>>}]
               ELSE z,
               k, r0, r1, lg)

ZeroedAfter(z, k, r0, r1) == ZeroedLogged(z, k, r0, r1, Logged(r0, r1))

\* The locals of the call become those of r.
Locals(r) ==
    /\ balance' = r.balance
    /\ debts' = r.debts
    /\ events' = r.events
    /\ i' = r.i
    /\ current_date' = r.current_date
    /\ schedule' = r.schedule
    /\ negative_hit' = r.negative_hit
    /\ paychecks_today' = r.paychecks_today
    /\ others_today' = r.others_today
    /\ pc' = r.pc
    /\ raised_on' = r.raised_on

\* The Debt's min_payment_args handed the caller's own dictionary, so that
\* what is written to the one shows in the other.
CallerArgsShared(given, held) == held

\* Lines 274-287: min_payment_args is a dictionary of its own, built from
\* the items of the caller's dictionary (given); what the Debt holds there
\* (held) is not seen by the caller.
CallerArgs(given, held) == given

\* The caller's arguments while the debts of the call are ds: the call
\* writes to its Debt and Event objects, its event list and its log, all
\* built by the call, and to the min_payment_args of its debts.
CallerSees(inp, ds) ==
    [inp EXCEPT !.debts_input =
        [k \in DOMAIN inp.debts_input |->
            [inp.debts_input[k] EXCEPT
                !.min_payment_args = CallerArgs(inp.debts_input[k].min_payment_args,
                                                ds[k].min_payment_args)]]]

\* A step of the call under way, from Cur to r.
Becomes(r) ==
    /\ Locals(r)
    /\ zeroed' = [k \in DOMAIN zeroed |-> ZeroedAfter(zeroed[k], k, Cur, r)]
    /\ inputs' = CallerSees(inputs, r.debts)
    /\ UNCHANGED <<again, first, probe>>

\* ------------------------------------------------------------------------
\* Inputs

MaxDays == 40

Today == MkDate(2025, 1, 25)

DebtIn(nm, bal, apr, minp, due, formula, method) ==
    [name |-> nm, balance |-> bal, apr |-> apr, minimum_payment |-> minp,
     due_date |-> due, min_payment_formula |-> formula,
     min_payment_args |-> NoArgs, interest_method |-> method]

DebtLists(S) ==
    { << DebtIn("A", 100 * Dollar, 0, 100 * Dollar, S, "", "credit_card") >>,
      << DebtIn("A", 152 * Dollar + 99 * Cent + HalfCent, 0, 153 * Dollar, S + 4,
                "", "credit_card"),
         DebtIn("B", 100 * Dollar, 0, 0, S + 30, "", "credit_card") >>,
      << DebtIn("A", 100 * Dollar, 146, 100 * Dollar, S + 3, "", "credit_card") >>,
      << DebtIn("A", 100 * Dollar, 73, 60 * Dollar, S + 3, "", "credit_card"),
         DebtIn("B", 100 * Dollar, 146, 0, NoDate, "", "credit_card") >>,
      << DebtIn("A", 200 * Dollar, 146, 20 * Dollar, S + 5, "credit_card", "credit_card"),
         DebtIn("B", 100 * Dollar, 146, 0, NoDate, "", "credit_card") >>,
      << DebtIn("A", 0, 73, 0, S + 10, "apple_card", "apple_card") >>,
      << DebtIn("A", 20 * Dollar, 0, 100 * Dollar, S + 1, "", "credit_card") >> }

PaycheckLists(S) ==
    { <<>>,
      << [name |-> "Paycheck", amount |-> 100 * Dollar, date |-> S + 6,
          frequency |-> "monthly"] >>,
      << [name |-> "Paycheck", amount |-> 60 * Dollar, date |-> S,
          frequency |-> "biweekly"] >> }

BillLists(S) ==
    { <<>>,
      << [name |-> "Bill", amount |-> 40 * Dollar, date |-> S + 2, debt |-> ""] >>,
      << [name |-> "Bill", amount |-> 10 * Dollar, date |-> S + 2, debt |-> "A"] >>,
      << [name |-> "Bill", amount |-> 40 * Dollar, date |-> S + 14, debt |-> ""] >> }

GoalLists(S) ==
    { <<>>, << [name |-> "Goal", amount |-> 80 * Dollar, date |-> S + 10] >> }

StartingBalances == {0, 50 * Dollar, 100 * Dollar, 200 * Dollar}

Inputs ==
    [start : {Today}, days : {MaxDays}, debug : {FALSE},
     starting_balance : StartingBalances,
     paychecks : PaycheckLists(Today), bills : BillLists(Today),
     goals : GoalLists(Today), debts_input : DebtLists(Today)]

\* The locals are those of r: the state of a call at line 302.
LocalsAre(r) ==
    /\ balance = r.balance
    /\ debts = r.debts
    /\ events = r.events
    /\ i = r.i
    /\ current_date = r.current_date
    /\ schedule = r.schedule
    /\ negative_hit = r.negative_hit
    /\ paychecks_today = r.paychecks_today
    /\ others_today = r.others_today
    /\ pc = r.pc
    /\ raised_on = r.raised_on

StartsAs(inp, againInp) ==
    /\ inputs = inp
    /\ again = againInp
    /\ LocalsAre(InitRun(inp))
    \* no call has ended yet
    /\ first = [InitRun(inp) EXCEPT !.pc = "none"]
    /\ zeroed = [k \in 1..Len(inp.debts_input) |-> NeverZeroed]

\* No helper function is called directly.
NoProbe == [fn |-> "none"]

\* The first call is made without debug, the second with it.
Init ==
    /\ \E inp \in Inputs : StartsAs(inp, [inp EXCEPT !.debug = ~@])
    /\ probe = NoProbe

\* ------------------------------------------------------------------------
\* Actions: one per step of the day loop

\* StartDay with the day loop running to the end of the look-ahead window.
StartDayInLookahead ==
    /\ pc = "day" /\ current_date <= LookaheadEnd(inputs.start, inputs.days)
    /\ Becomes(DoStartDay(Cur))

StartDay ==
    /\ pc = "day" /\ current_date <= inputs.start + inputs.days
    /\ Becomes(DoStartDay(Cur))

Return ==
    /\ pc = "day" /\ current_date > inputs.start + inputs.days
    /\ Becomes(DoReturn(Cur))

ApplyPaycheck ==
    /\ pc = "paychecks"
    /\ Becomes(DoPaycheck(Cur))

ApplyDebtAdd ==
    /\ pc = "others" /\ Head(others_today).type = "debt_add"
    /\ Becomes(DoDebtAdd(Cur))

ApplyDebtMin ==
    /\ pc = "others" /\ Head(others_today).type = "debt_min"
    /\ Becomes(DoDebtMin(Cur))

ApplyBill ==
    /\ pc = "others" /\ Head(others_today).type \in {"bill", "goal"}
    /\ Becomes(DoBill(Cur))

SafePayment ==
    /\ pc = "project"
    /\ Becomes(DoProject(Cur))

AccrueInterest ==
    /\ pc = "accrue"
    /\ Becomes(DoAccrue(Cur))

MonthEnd ==
    /\ pc = "month_end"
    /\ Becomes(DoMonthEnd(Cur))

\* The first call has returned or raised; the second call is made.
StartAgain(inp) ==
    /\ inputs' = inp
    /\ Locals(InitRun(inp))

\* The arguments of the second call: the lists of dictionaries the first
\* call was given, as they are now.
SecondArgs(given, seen) ==
    [given EXCEPT !.paychecks = seen.paychecks, !.bills = seen.bills,
                  !.goals = seen.goals, !.debts_input = seen.debts_input]

CallAgain ==
    /\ pc \in {"done", "raised", "error"} /\ first.pc = "none"
    /\ first' = Cur
    /\ again' = again
    /\ StartAgain(SecondArgs(again, inputs))
    /\ zeroed' = [k \in DOMAIN zeroed |-> NeverZeroed]
    /\ probe' = probe

Next ==
    \/ StartDay \/ Return \/ ApplyPaycheck \/ ApplyDebtAdd \/ ApplyDebtMin
    \/ ApplyBill \/ SafePayment \/ AccrueInterest \/ MonthEnd \/ CallAgain

Spec == Init /\ [][Next]_vars

\* ------------------------------------------------------------------------
\* Two horizons: the call over LongDays, then the same call over ShortDays,
\* as test_schedule_independent_of_simulation_length compares them.

LongDays == 366
ShortDays == 2

LongInputs ==
    [start : {Today}, days : {LongDays}, debug : BOOLEAN,
     starting_balance : {100 * Dollar},
     paychecks : {<<>>},
     bills : {<<>>},
     goals : {<< [name |-> "Goal", amount |-> 500 * Dollar, date |-> Today + 366] >>},
     debts_input : {<< DebtIn("A", 300 * Dollar, 0, 0, NoDate, "", "credit_card") >>}]
    \cup
    [start : {Today}, days : {LongDays}, debug : {TRUE},
     starting_balance : {100 * Dollar},
     paychecks : {<< [name |-> "Paycheck", amount |-> 100 * Dollar, date |-> Today + 6,
                      frequency |-> "monthly"] >>},
     bills : {<< [name |-> "Bill", amount |-> 40 * Dollar, date |-> Today + 2, debt |-> ""],
                 [name |-> "Card", amount |-> 10 * Dollar, date |-> Today + 8, debt |-> "A"] >>},
     goals : {<< [name |-> "Goal", amount |-> 500 * Dollar, date |-> Today + 366] >>},
     debts_input : {<< DebtIn("A", 300 * Dollar, 73, 30 * Dollar, Today + 3, "",
                              "credit_card") >>}]

InitLong ==
    /\ \E inp \in LongInputs : StartsAs(inp, [inp EXCEPT !.days = ShortDays])
    /\ probe = NoProbe

SpecLong == InitLong /\ [][Next]_vars

\* ------------------------------------------------------------------------
\* Properties

\* The step is one of a call under way (not the making of the second call).
InCall == pc \notin {"done", "raised", "error"}

IsPrefix(a, b) == Len(a) <= Len(b) /\ SubSeq(b, 1, Len(a)) = a

Negatives(sched) == {k \in 1..Len(sched) : sched[k].balance < 0}

Extras(sched) == {k \in 1..Len(sched) : sched[k].type = "extra"}

Last(sched) == sched[Len(sched)]

\* C1: in non-debug mode, when the call returns normally, every schedule
\* entry's running balance is >= 0.
C1_NonNegative ==
    (~inputs.debug /\ pc = "done") => Negatives(schedule) = {}

\* C2: once an extra payment is logged, no bill, goal or debt_min applied on
\* a later day drives the cash balance below zero: no such entry has a
\* negative running balance, and the non-debug call does not raise on one.
C2_NoShortfallAfterExtra ==
    /\ \A a \in Extras(schedule) : \A b \in Negatives(schedule) :
           ~(schedule[b].type \in {"bill", "goal", "debt_min"}
             /\ schedule[b].date > schedule[a].date)
    /\ (pc = "raised" /\ balance < 0) =>
           \A a \in Extras(schedule) : schedule[a].date >= raised_on

\* C3: the entries of the longer run dated on or before the end of the
\* shorter run are exactly the entries of the shorter run.
C3_HorizonIndependent ==
    (pc = "done" /\ first.pc = "done" /\ inputs.days < first.days)
    => SelectSeq(first.schedule, LAMBDA e : e.date <= inputs.start + inputs.days)
           = schedule

\* The step logs an extra payment.
ExtraLogged ==
    Len(schedule') = Len(schedule) + 1 /\ Last(schedule').type = "extra"

\* C4: every extra payment goes to a debt with balance > 0 whose APR is at
\* least that of every other debt with balance > 0, the earliest in the list
\* among those of equal highest APR; the payment comes off that debt alone.
C4_AvalancheTarget ==
    [][(InCall /\ ExtraLogged) =>
         LET k == DebtIdx(debts, Last(schedule').description[2])
         IN  /\ debts[k].balance > 0
             /\ \A j \in DOMAIN debts :
                    debts[j].balance > 0 =>
                        /\ debts[j].apr <= debts[k].apr
                        /\ j < k => debts[j].apr < debts[k].apr
             /\ debts'[k].balance = debts[k].balance + Last(schedule').amount
             /\ \A j \in DOMAIN debts \ {k} : debts'[j].balance = debts[j].balance]_vars

\* A lower-APR debt has received an extra payment after the higher-APR debt
\* was paid down to zero by extra payments.
C4_Witness ==
    /\ schedule # <<>>
    /\ Last(schedule).description = <<"Extra payment to ", "A">>
    /\ \E e \in Extras(schedule) : schedule[e].description = <<"Extra payment to ", "B">>
    /\ Len(debts) = 2
    /\ debts[2].apr > debts[1].apr
    /\ debts[2].balance = 0

\* C5: every debt's balance is >= 0 in every reachable state.
C5_DebtBalanceNonNegative ==
    \A k \in DOMAIN debts : debts[k].balance >= 0

\* An extra payment has just paid a debt off to exactly zero and left cash
\* over: the safe amount was capped at the debt's balance.
C5_Witness ==
    /\ pc = "accrue"
    /\ schedule # <<>>
    /\ Last(schedule).type = "extra"
    /\ balance > 0
    /\ \E k \in DOMAIN debts :
           /\ Last(schedule).description = <<"Extra payment to ", debts[k].name>>
           /\ debts[k].balance = 0
           /\ debts[k].paid_off_date = current_date

C7_StampedOnEveryPayoff ==
    [][InCall => \A k \in DOMAIN debts :
           /\ (debts[k].balance > 0 /\ debts'[k].balance <= 0) =>
                  debts'[k].paid_off_date = current_date
           /\ debts[k].paid_off_date # NoDate =>
                  debts'[k].paid_off_date = debts[k].paid_off_date]_vars

\* C7 amended: a payment that brings the balance to <= 0 while paid_off_date
\* is unset sets it to the date of that payment; paid_off_date is set by
\* nothing else, and once set it never changes, so a debt that is reopened
\* and paid off again keeps the date of its first payoff.
C7_StampedOnce ==
    [][InCall => \A k \in DOMAIN debts :
           /\ debts[k].paid_off_date # NoDate =>
                  debts'[k].paid_off_date = debts[k].paid_off_date
           /\ (debts[k].paid_off_date = NoDate /\ debts[k].balance > 0
               /\ debts'[k].balance <= 0) =>
                  debts'[k].paid_off_date = current_date
           /\ (debts[k].paid_off_date = NoDate /\ debts'[k].paid_off_date # NoDate) =>
                  /\ debts[k].balance > 0 /\ debts'[k].balance <= 0
                  /\ \/ pc = "project"
                     \/ pc = "others" /\ Head(others_today).type = "debt_min"]_vars

\* A debt stamped as paid off was reopened and has come down to zero again
\* on a later date; it still carries the first date.
C7_Witness ==
    \E k \in DOMAIN debts :
        /\ debts[k].balance = 0
        /\ debts[k].paid_off_date # NoDate
        /\ zeroed[k].on > debts[k].paid_off_date

\* C8 as stated: a debt_min entry logged for a debt on a date after its
\* balance came down to zero is preceded, since then, by a debt_add event
\* for that debt.
C8_NoMinAfterZero ==
    \A k \in DOMAIN zeroed : \A p \in zeroed[k].mins : p[1]

\* C8 amended: a debt_min entry logged for a debt on a date after its balance
\* came down to zero is preceded, since then, by a debt_add event for that
\* debt or by a month-end billing of interest to it.
C8_NoMinUnlessReopened ==
    \A k \in DOMAIN zeroed : \A p \in zeroed[k].mins : p[1] \/ p[2]

\* A debt_min entry was logged for a paid-off debt that only billed interest
\* had reopened.
C8_Witness ==
    \E k \in DOMAIN zeroed : <<FALSE, TRUE>> \in zeroed[k].mins

\* C9: the debug call made after the non-debug call on the same arguments
\* logs the same entries up to the first shortfall. If the non-debug call
\* raised, the debug call records the date the error named, having logged
\* the entries the non-debug call had logged, and goes on through the last
\* day; until it records a date it has logged no other entries than the
\* non-debug call. If the non-debug call returned, the debug call returns
\* the same schedule and no date. The debug call never raises.
C9_DebugOnlyShortfall ==
    (first.pc # "none" /\ ~first.debug /\ inputs.debug) =>
        /\ first.pc \in {"done", "raised"}
        /\ pc \notin {"raised", "error"}
        /\ negative_hit = NoDate =>
               /\ IsPrefix(schedule, first.schedule)
               /\ pc = "done" => (first.pc = "done" /\ schedule = first.schedule)
        /\ negative_hit # NoDate =>
               /\ first.pc = "raised"
               /\ negative_hit = first.raised_on
               /\ IsPrefix(first.schedule, schedule)
        /\ pc = "done" => current_date = inputs.start + inputs.days + 1

\* The non-debug call raised part-way, and the debug call has gone on to
\* the end and returns the date the error named.
C9_Witness ==
    /\ first.pc = "raised"
    /\ first.schedule # <<>>
    /\ ~first.debug /\ inputs.debug
    /\ pc = "done"
    /\ negative_hit = first.raised_on
    /\ Len(schedule) > Len(first.schedule)

\* C10: the date a debug call returns is None iff no schedule entry has a
\* negative running balance, and otherwise is the date of the earliest such
\* entry.
C10_FirstNegativeDate ==
    (inputs.debug /\ pc = "done") =>
        IF Negatives(schedule) = {} THEN negative_hit = NoDate
        ELSE negative_hit =
                 schedule[CHOOSE k \in Negatives(schedule) :
                              \A j \in Negatives(schedule) : k <= j].date

\* The step applies a debt_min event and logs its payment.
MinLogged ==
    /\ InCall /\ pc = "others" /\ Head(others_today).type = "debt_min"
    /\ Len(schedule') = Len(schedule) + 1

\* C11: the amount of every applied debt_min payment is a whole number of
\* cents and does not exceed the debt's balance at application time, rounded
\* half-up to cents.
C11_MinPaymentRounded ==
    [][MinLogged =>
         /\ (0 - Last(schedule').amount) % Cent = 0
         /\ 0 - Last(schedule').amount <=
                QuantizeCent(debts[DebtIdx(debts, Last(schedule').description[1])].balance)]_vars

RECURSIVE TotalOwed(_)
TotalOwed(ds) == IF ds = <<>> THEN 0 ELSE Head(ds).balance + TotalOwed(Tail(ds))

\* The only outflows of the call are minimum payments of interest-free debts,
\* and the starting cash covers all that is owed.
CashCoversDebts(inp) ==
    /\ inp.bills = <<>> /\ inp.goals = <<>>
    /\ \A k \in DOMAIN inp.debts_input : inp.debts_input[k].apr = 0
    /\ inp.starting_balance >= TotalOwed(inp.debts_input)

\* C12: when the cash balance covers what remains owed, a debt_min event
\* whose amount exceeds the debt's remaining balance raises no shortfall
\* error at any point of the non-debug call.
C12_NoRaiseWhenCovered ==
    (~inputs.debug /\ CashCoversDebts(inputs)) => pc # "raised"

\* ------------------------------------------------------------------------
\* Direct calls of the cash-flow projector (cash_flow.py), as fin.py and the
\* scheduler make them: the arguments are drawn from CashProbes, the call
\* returns in one step.

\* The call under way has no part in a direct call.
NoRun ==
    [start |-> Today, days |-> 0, debug |-> FALSE, starting_balance |-> 0,
     paychecks |-> <<>>, bills |-> <<>>, goals |-> <<>>, debts_input |-> <<>>]

MaxFlows == 2

FlowLists(dates, amounts) ==
    UNION {[1..n -> [date : dates, amount : amounts]] : n \in 0..MaxFlows}

CashProbes ==
    [fn : {"projected_min_balance", "max_safe_payment"},
     initial_balance : {0, HalfCent, 10 * Dollar, 50 * Dollar},
     bills : FlowLists({Today + 1, Today + 2}, {20 * Dollar, 30 * Dollar + HalfCent}),
     incomes : FlowLists({Today + 1, Today + 2}, {25 * Dollar}),
     returned : {FALSE}, out : {<<0, NoDate>>}]

InitCash ==
    /\ StartsAs(NoRun, NoRun)
    /\ probe \in CashProbes

\* The other variables are those of a call of the scheduler.
ProbeOnly ==
    UNCHANGED <<inputs, balance, debts, events, i, current_date, schedule,
                negative_hit, paychecks_today, others_today, pc, raised_on,
                again, first, zeroed>>

CallProjectedMin ==
    /\ probe.fn = "projected_min_balance" /\ ~probe.returned
    /\ probe' = [probe EXCEPT
                    !.returned = TRUE,
                    !.out = projected_min_balance(probe.initial_balance, probe.bills,
                                                  probe.incomes)]
    /\ ProbeOnly

CallMaxSafe ==
    /\ probe.fn = "max_safe_payment" /\ ~probe.returned
    /\ probe' = [probe EXCEPT
                    !.returned = TRUE,
                    !.out = <<max_safe_payment(probe.initial_balance, probe.bills,
                                               probe.incomes), NoDate>>]
    /\ ProbeOnly

NextCash == CallProjectedMin \/ CallMaxSafe

SpecCash == InitCash /\ [][NextCash]_vars

\* An amount as given (Exact) or rounded half-up to cents (InCents).
Exact == FALSE
InCents == TRUE
Amt(cents, x) == IF cents THEN QuantizeCent(x) ELSE x

\* The sum of the amounts of the flows dated on or before d.
RECURSIVE SumUpTo(_, _, _)
SumUpTo(flows, d, cents) ==
    IF flows = <<>> THEN 0
    ELSE (IF Head(flows).date <= d THEN Amt(cents, Head(flows).amount) ELSE 0)
         + SumUpTo(Tail(flows), d, cents)

\* The running sum from b once every flow dated on or before d is in, the
\* incomes of a day before its outflows.
SumAfter(b, bills, incomes, d, cents) ==
    b + SumUpTo(incomes, d, cents) - SumUpTo(bills, d, cents)

FlowDates(flows) == {flows[k].date : k \in DOMAIN flows}

\* The least of b and the running sums: with amounts >= 0 it is reached at
\* b or after the outflows of some day.
LeastSum(b, bills, incomes, cents) ==
    LET sums == {b} \cup {SumAfter(b, bills, incomes, d, cents) : d \in FlowDates(bills)}
    IN  CHOOSE m \in sums : \A x \in sums : m <= x

\* The earliest day whose outflows leave the running sum below zero.
FirstBelowZero(b, bills, incomes, cents) ==
    LET neg == {d \in FlowDates(bills) : SumAfter(b, bills, incomes, d, cents) < 0}
    IN  IF neg = {} THEN NoDate ELSE CHOOSE d \in neg : \A x \in neg : d <= x

\* C13: max_safe_payment returns max(0, m), m the least of the initial
\* balance and the cumulative sums of the flows; when m >= 0, replaying the
\* flows from the balance less the returned amount never gives a negative
\* sum, and replaying from one cent less does.
C13_MaxSafePayment ==
    (probe.fn = "max_safe_payment" /\ probe.returned) =>
        /\ probe.out[1] = Max2(0, LeastSum(probe.initial_balance, probe.bills,
                                           probe.incomes, Exact))
        /\ LeastSum(probe.initial_balance, probe.bills, probe.incomes, Exact) >= 0 =>
              /\ LeastSum(probe.initial_balance - probe.out[1], probe.bills,
                          probe.incomes, Exact) >= 0
              /\ LeastSum(probe.initial_balance - probe.out[1] - Cent, probe.bills,
                          probe.incomes, Exact) < 0

DebtAddApplied ==
    /\ InCall /\ pc = "others" /\ Head(others_today).type = "debt_add"
    /\ pc' # "error"

\* C15: applying a debt_add event raises the target debt's balance by
\* exactly the event amount, leaves every other debt's balance and the cash
\* balance unchanged, and logs one entry whose running balance is the cash
\* balance before the event.
C15_DebtAddNoCash ==
    [][DebtAddApplied =>
         /\ balance' = balance
         /\ \A k \in DOMAIN debts :
                debts'[k].balance =
                    debts[k].balance
                    + (IF debts[k].name = Head(others_today).debt
                       THEN Head(others_today).amount ELSE 0)
         /\ schedule' = Append(schedule,
                               LogEntry(Head(others_today).date, "debt_add",
                                        <<Head(others_today).name>>,
                                        Head(others_today).amount, balance))]_vars

\* A bill linked to a debt has just been applied while cash was on hand: the
\* cash is all still there and the debt is higher than it was at the start.
C15_Witness ==
    /\ schedule # <<>>
    /\ Last(schedule).type = "debt_add"
    /\ Last(schedule).description = <<"Bill">>
    /\ others_today = <<>> /\ pc = "project"
    /\ balance = inputs.starting_balance /\ balance > 0
    /\ debts[1].balance = inputs.debts_input[1].balance + 10 * Dollar

\* The schedule entry e is a payment to the debt called name or a charge to
\* it (a bill linked to it).
RefersTo(e, name) ==
    \/ e.type = "debt_min" /\ e.description = <<name>>
    \/ e.type = "extra" /\ e.description = <<"Extra payment to ", name>>
    \/ /\ e.type = "debt_add" /\ Len(e.description) = 1
       /\ \E b \in DOMAIN inputs.bills :
              inputs.bills[b].name = e.description[1] /\ inputs.bills[b].debt = name

\* The debt called name has been paid or charged on or after the day from.
TouchedSince(name, from) ==
    \E e \in DOMAIN schedule : schedule[e].date >= from /\ RefersTo(schedule[e], name)

\* The first simulated day of the month of d.
MonthStart(d) == Max2(inputs.start, ReplaceDay(d, 1))

\* The interest the step bills to the debt called name (0: none).
BilledTo(name) ==
    LET new == {e \in (Len(schedule) + 1)..Len(schedule') :
                    schedule'[e].description = <<name, " interest">>}
    IN  IF new = {} THEN 0 ELSE schedule'[CHOOSE e \in new : TRUE].amount

\* The step is the month-end billing (and no registry lookup fails).
MonthEndBilled == InCall /\ pc = "month_end" /\ pc' # "error"

MonthLast(d) == ReplaceDay(d, MonthLenOf(d))

\* The interest billed at the month ends from the day from to the day to on
\* a principal P that never changes: each month end me bills the simple
\* interest of the simulated days of its month.
RECURSIVE BilledOver(_, _, _, _)
BilledThrough(P, apr, from, me, to) ==
    IF me > to THEN 0
    ELSE QuantizeCent(InterestFor(P, apr, me - from + 1)) + BilledOver(P, apr, me + 1, to)
BilledOver(P, apr, from, to) == BilledThrough(P, apr, from, MonthLast(from), to)

TagDays == 10

\* Debt B carries the unregistered tag: as its formula (with and without
\* interest to bill), or as its interest method.
TagDebtLists(S) ==
    { << DebtIn("A", 100 * Dollar, 0, 10 * Dollar, S + 3, "", "credit_card"),
         DebtIn("B", 100 * Dollar, apr, 10 * Dollar, S + 4, formula, method) >> :
      <<apr, formula, method>> \in { <<0, "bogus", "credit_card">>,
                                     <<146, "bogus", "credit_card">>,
                                     <<0, "", "bogus">>,
                                     <<0, "credit_card", "bogus">> } }

TagInputs ==
    [start : {Today}, days : {TagDays}, debug : {FALSE},
     starting_balance : {100 * Dollar, 200 * Dollar},
     paychecks : {<< [name |-> "Paycheck", amount |-> 100 * Dollar, date |-> Today + 6,
                      frequency |-> "monthly"] >>},
     bills : {<< [name |-> "Bill", amount |-> 40 * Dollar, date |-> Today + 2, debt |-> ""],
                 [name |-> "Card", amount |-> 10 * Dollar, date |-> Today + 8, debt |-> "A"] >>},
     goals : {<<>>},
     debts_input : TagDebtLists(Today)]

InitTags ==
    /\ \E inp \in TagInputs : StartsAs(inp, [inp EXCEPT !.debug = ~@])
    /\ probe = NoProbe

SpecTags == InitTags /\ [][Next]_vars

\* A debt of the call has an interest_method or a min_payment_formula that
\* is not registered.
UnknownTag(inp) ==
    \E k \in DOMAIN inp.debts_input :
        \/ inp.debts_input[k].interest_method \notin INTEREST_METHODS
        \/ MinPaymentRaises(inp.debts_input[k])

\* C18: a call whose debts include one with an unregistered interest_method
\* or min_payment_formula ends in an error and never returns a schedule.
C18_UnknownTagFatal ==
    UnknownTag(inputs) => pc # "done"

\* ------------------------------------------------------------------------
\* Direct calls of the minimum-payment formulas

\* args.get(...) of the five optional parameters of apple_card
MinArgs ==
    { NoArgs,
      [NoArgs EXCEPT !.interest_billed = 5 * Dollar, !.past_due = 30 * Dollar],
      [NoArgs EXCEPT !.unpaid_daily_cash = 2 * Dollar, !.financing_balance = 10 * Dollar,
                     !.installment_due = 20 * Dollar] }

\* Debt states with balance >= 0 and apr >= 0 (0 %, 36.5 %, 365 %, 1204.5 %),
\* without a due date, with one before the as-of date and with one after it.
MinDebts ==
    { [MkDebt(DebtIn("A", bal, apr, 25 * Dollar, due, "", "credit_card"))
          EXCEPT !.min_payment_args = a] :
      bal \in {0, HalfCent, Cent, 10 * Dollar, 100 * Dollar, 100 * Dollar + HalfCent},
      apr \in {0, 73, 730, 2409},
      due \in {NoDate, Today - 3, Today + 10},
      a \in MinArgs }

\* Debt states whose balance puts 1 % of it above 25 dollars.
LargeDebts ==
    { [MkDebt(DebtIn("A", bal, 0, 25 * Dollar, NoDate, "", "credit_card"))
          EXCEPT !.min_payment_args = a] :
      bal \in {2500 * Dollar + HalfCent, 2610 * Dollar, 3000 * Dollar},
      a \in MinArgs }

MinProbes ==
    [fn : {"credit_card", "apple_card"}, d : MinDebts, as_of : {Today, Today + 10},
     returned : {FALSE}, out : {0}]
    \cup [fn : {"apple_card"}, d : LargeDebts, as_of : {Today, Today + 10},
          returned : {FALSE}, out : {0}]

InitMin == StartsAs(NoRun, NoRun) /\ probe \in MinProbes

CallCreditCard ==
    /\ probe.fn = "credit_card" /\ ~probe.returned
    /\ probe' = [probe EXCEPT !.returned = TRUE, !.out = credit_card(probe.d, probe.as_of)]
    /\ ProbeOnly

CallAppleCard ==
    /\ probe.fn = "apple_card" /\ ~probe.returned
    /\ probe' = [probe EXCEPT !.returned = TRUE, !.out = apple_card(probe.d, probe.as_of)]
    /\ ProbeOnly

NextMin == CallCreditCard \/ CallAppleCard

SpecMin == InitMin /\ [][NextMin]_vars

\* C19: each registered minimum-payment formula returns an amount that is
\* at least 0 and at most the debt's current balance.
C19_MinPaymentWithinBalance ==
    (probe.fn \in FORMULAS /\ probe.returned)
        => (0 <= probe.out /\ probe.out <= probe.d.balance)

\* ------------------------------------------------------------------------
\* Direct calls of the event generator

EventPaychecks ==
    { << [name |-> "Paycheck", amount |-> 100 * Dollar, date |-> d, frequency |-> f] >> :
      d \in {MkDate(2025, 1, 3), MkDate(2025, 1, 14), MkDate(2025, 1, 16),
             MkDate(2025, 1, 29), MkDate(2025, 1, 30), MkDate(2025, 1, 31)},
      f \in {"weekly", "biweekly", "semi-monthly", "monthly"} }

\* term_months is a key some callers put on a bill (0: the key is absent);
\* _build_events reads only date, amount, name and debt.
EventBills ==
    { << [name |-> "Bill", amount |-> 40 * Dollar, date |-> d, debt |-> db,
          term_months |-> k] >> :
      d \in {MkDate(2025, 1, 10), MkDate(2025, 1, 31)}, db \in {"", "A"}, k \in {0, 2} }

EventGoals ==
    { << [name |-> "Goal", amount |-> 50 * Dollar, date |-> d] >> :
      d \in {MkDate(2025, 1, 20), MkDate(2025, 4, 1)} }

EventDebts ==
    { << MkDebt(DebtIn("A", 100 * Dollar, 0, 25 * Dollar, due, "", "credit_card")) >> :
      due \in {NoDate, MkDate(2025, 1, 5), MkDate(2025, 1, 30)} }

\* Windows [start, end] of 10 and of 70 days, beginning before and after the
\* end of February 2025 and before the end of February of a leap year.
EventWindows ==
    { <<st, st + n>> : st \in {Today, MkDate(2025, 3, 29), MkDate(2028, 2, 10)},
                       n \in {10, 70} }

EventProbes ==
    { [fn |-> "_build_events", paychecks |-> ps, bills |-> bs, goals |-> gs, ds |-> dl,
       start |-> w[1], end |-> w[2], returned |-> FALSE, out |-> <<>>] :
      ps \in EventPaychecks, bs \in EventBills, gs \in EventGoals, dl \in EventDebts,
      w \in EventWindows }

InitEvents == StartsAs(NoRun, NoRun) /\ probe \in EventProbes

CallBuildEvents ==
    /\ probe.fn = "_build_events" /\ ~probe.returned
    /\ probe' = [probe EXCEPT
                    !.returned = TRUE,
                    !.out = BuildEvents(probe.paychecks, probe.bills, probe.goals,
                                        probe.ds, probe.start, probe.end)]
    /\ ProbeOnly

NextEvents == CallBuildEvents

SpecEvents == InitEvents /\ [][NextEvents]_vars

\* The recurrence dates of a spec up to end: its date and every date reached
\* from it by advancing.
RECURSIVE Paydays(_, _, _, _)
Paydays(current, freq, first_day, end) ==
    IF current > end THEN {}
    ELSE {current} \cup Paydays(AdvancePaycheck(current, freq, first_day), freq, first_day, end)

RECURSIVE MonthlyDates(_, _)
MonthlyDates(current, end) ==
    IF current > end THEN {} ELSE {current} \cup MonthlyDates(AddMonth(current), end)

\* The dates of the events of the given types in a list.
DatesOf(es, types) == { es[k].date : k \in { j \in DOMAIN es : es[j].type \in types } }

Least(S) == CHOOSE x \in S : \A y \in S : x <= y

\* The events of a source begin with its earliest recurrence date on or after
\* start (none if that is after end) and hold every later one up to end.
BeginsAtEarliest(dates, recurrences, start) ==
    /\ dates = { r \in recurrences : r >= start }
    /\ dates # {} => Least(dates) = Least({ r \in recurrences : r >= start })

DueDates(d, end) ==
    IF d.due_date = NoDate \/ d.minimum_payment <= 0 THEN {} ELSE MonthlyDates(d.due_date, end)

EventsFromStart(pr) ==
    /\ BeginsAtEarliest(DatesOf(pr.out, {"paycheck"}),
                        Paydays(pr.paychecks[1].date, pr.paychecks[1].frequency,
                                DayOf(pr.paychecks[1].date), pr.end),
                        pr.start)
    /\ BeginsAtEarliest(DatesOf(pr.out, {"bill", "debt_add"}),
                        MonthlyDates(pr.bills[1].date, pr.end), pr.start)
    /\ BeginsAtEarliest(DatesOf(pr.out, {"debt_min"}), DueDates(pr.ds[1], pr.end), pr.start)

\* C20: the event generator emits no past occurrence: the events of every
\* recurring income, bill and debt due date begin at the earliest recurrence
\* date on or after start, every event is dated within [start, end], and
\* the list is sorted by date.
C20_NoPastOccurrence ==
    (probe.fn = "_build_events" /\ probe.returned) =>
        /\ EventsFromStart(probe)
        /\ \A k \in DOMAIN probe.out :
               probe.start <= probe.out[k].date /\ probe.out[k].date <= probe.end
        /\ \A j, k \in DOMAIN probe.out : j < k => probe.out[j].date <= probe.out[k].date

\* An income, a bill and a due date that all lie before start were each
\* rolled forward to an event inside the window.
C20_Witness ==
    /\ probe.fn = "_build_events" /\ probe.returned
    /\ probe.paychecks[1].date < probe.start
    /\ probe.bills[1].date < probe.start
    /\ probe.ds[1].due_date # NoDate /\ probe.ds[1].due_date < probe.start
    /\ DatesOf(probe.out, {"paycheck"}) # {}
    /\ DatesOf(probe.out, {"bill", "debt_add"}) # {}
    /\ DatesOf(probe.out, {"debt_min"}) # {}

\* The days from the later of first_date and start to end whose day of the
\* month is min(a, L) or min(a + 15, L), L the length of their month.
SemiMonthlyPaydays(a, first_date, start, end) ==
    { d \in Max2(first_date, start)..end :
        DayOf(d) \in {Min2(a, MonthLenOf(d)), Min2(a + 15, MonthLenOf(d))} }

PaycheckCount(es) == Cardinality({ k \in DOMAIN es : es[k].type = "paycheck" })

next_due_date(due, end) ==
    IF due = NoDate THEN NoDate ELSE NextDueAfter(due, end)

\* The dictionary returned for one debt (lines 619-628).
ReturnedDebt(d, end) ==
    [name |-> d.name, balance |-> d.balance, interest_accrued |-> d.interest_accrued,
     interest_charges |-> d.interest_charges,
     next_due_date |-> IF d.paid_off_date # NoDate THEN NoDate
                       ELSE next_due_date(d.due_date, end),
     paid_off_date |-> d.paid_off_date]

ReturnedDebts == [k \in DOMAIN debts |-> ReturnedDebt(debts[k], inputs.start + inputs.days)]

\* A payment to the debt is in the schedule.
PaidInto(name) ==
    \E k \in DOMAIN schedule :
        schedule[k].type \in {"debt_min", "extra"} /\ RefersTo(schedule[k], name)

\* What the claim asks of one returned dictionary, given the debt's due date.
ReportsFinalState(rd, due, end) ==
    /\ (rd.balance = 0 /\ PaidInto(rd.name))
           => (rd.paid_off_date # NoDate /\ rd.next_due_date = NoDate)
    /\ (rd.balance > 0 /\ due # NoDate)
           => (rd.next_due_date # NoDate /\ rd.next_due_date = NextDueAfter(due, end))

\* C22: in the returned list a debt that has been repaid in full (balance 0)
\* has paid_off_date set and next_due_date None, and a debt with a balance
\* above 0 and a due date has as next_due_date the first monthly recurrence
\* of its due date after the horizon end.
C22_PaidOffOrNextDue ==
    pc = "done" =>
        \A k \in DOMAIN debts :
            ReportsFinalState(ReturnedDebts[k], debts[k].due_date, inputs.start + inputs.days)

\* The first k monthly occurrences from a date on.
RECURSIVE TermDates(_, _)
TermDates(current, k) ==
    IF k <= 0 THEN {} ELSE {current} \cup TermDates(AddMonth(current), k - 1)

\* C23: a bill carrying term_months = k that begins inside the window
\* generates its first k monthly occurrences (as far as the window reaches)
\* and none after them.
C23_BillTermMonths ==
    (probe.fn = "_build_events" /\ probe.returned
        /\ probe.bills[1].term_months > 0 /\ probe.bills[1].date >= probe.start) =>
        DatesOf(probe.out, {"bill", "debt_add"})
            = { d \in TermDates(probe.bills[1].date, probe.bills[1].term_months) :
                  d <= probe.end }

\* ------------------------------------------------------------------------
\* The order of the steps of a day

\* The step of the day that logs an entry: 1 a paycheck, 2 a bill, goal,
\* minimum payment or charge, 3 the extra payment, 4 billed interest.
StepOf(e) ==
    IF e.type = "paycheck" THEN 1
    ELSE IF e.type = "extra" THEN 3
    ELSE IF e.type = "debt_add" /\ Len(e.description) = 2 THEN 4
    ELSE 2

LoggedInStepOrder ==
    \A j, k \in DOMAIN schedule :
        (j < k /\ schedule[j].date = schedule[k].date)
            => StepOf(schedule[j]) <= StepOf(schedule[k])

\* The entries a step appends to the log are of the step's own kind.
AppendsOnly(n) ==
    /\ Len(schedule') >= Len(schedule)
    /\ SubSeq(schedule', 1, Len(schedule)) = schedule
    /\ \A k \in (Len(schedule) + 1)..Len(schedule') :
           StepOf(schedule'[k]) = n /\ schedule'[k].date = current_date

StepsInOrder ==
    /\ pc = "paychecks" => pc' \in {"paychecks", "others", "project"} /\ AppendsOnly(1)
    /\ pc = "others" => pc' \in {"others", "project", "raised", "error"} /\ AppendsOnly(2)
    /\ pc = "project" => pc' \in {"accrue", "raised", "error"} /\ AppendsOnly(3)
    /\ pc = "accrue" => /\ pc' \in {"month_end", "day", "error"}
                        /\ pc' = "month_end" => IsMonthEnd(current_date)
                        /\ schedule' = schedule
    /\ pc = "month_end" => /\ pc' \in {"day", "error"} /\ IsMonthEnd(current_date)
                           /\ pc' = "day" => AppendsOnly(4)

\* The sum of the amounts of the events of the given types on date d.
RECURSIVE EventSum(_, _, _)
EventSum(evs, d, types) ==
    IF evs = <<>> THEN 0
    ELSE (IF Head(evs).date = d /\ Head(evs).type \in types THEN Head(evs).amount ELSE 0)
         + EventSum(Tail(evs), d, types)

\* On date d there are incomes and bills or goals, the incomes cover them,
\* and no minimum payment falls on that date.
IncomeCovers(d) ==
    /\ EventSum(events, d, {"bill", "goal"}) > 0
    /\ EventSum(events, d, {"paycheck"}) >= EventSum(events, d, {"bill", "goal"})
    /\ \A k \in DOMAIN events : events[k].date = d => events[k].type # "debt_min"

\* The cash balance with which the day began.
DayStartBalance ==
    IF \E k \in DOMAIN schedule : schedule[k].date < current_date
    THEN schedule[Cardinality({k \in DOMAIN schedule : schedule[k].date < current_date})].balance
    ELSE inputs.starting_balance

NoShortfallWhenCovered ==
    (pc = "others" /\ IncomeCovers(current_date) /\ DayStartBalance >= 0)
        => (pc' # "raised" /\ negative_hit' = negative_hit)

\* C24: the steps of a day run in a fixed order - its paychecks, then its
\* bills, goals, minimum payments and charges, then the extra payment, then
\* interest accrual and, on the last day of a month, interest billing - and
\* the log shows them in that order; a bill due on the date of an income
\* that covers it triggers no shortfall, and no shortfall error names such
\* a date.
C24_StepsInOrder ==
    /\ [](LoggedInStepOrder /\ (pc = "raised" => ~IncomeCovers(raised_on)))
    /\ [][StepsInOrder /\ NoShortfallWhenCovered]_vars

\* A bill was paid out of the paycheck of the same day: the cash before the
\* paycheck did not cover it.
C24_Witness ==
    \E k \in DOMAIN schedule :
        /\ k > 1 /\ schedule[k].type = "bill" /\ schedule[k - 1].type = "paycheck"
        /\ schedule[k - 1].date = schedule[k].date
        /\ schedule[k - 1].balance - schedule[k - 1].amount < 0 - schedule[k].amount
        /\ schedule[k].balance >= 0

\* ------------------------------------------------------------------------
\* The minimum payment after a charge

\* The first monthly recurrence of a due date strictly after day t.
NextDueFrom(due, t) == Least({ d \in MonthlyDates(due, t + 62) : d > t })

\* The debt_min events of a debt on a date, by position in the event list.
MinEventsOn(evs, name, d) ==
    { j \in DOMAIN evs : /\ evs[j].type = "debt_min" /\ evs[j].date = d
                         /\ (IF evs[j].debt # "" THEN evs[j].debt ELSE evs[j].name) = name }

\* The event list holds one debt_min event of the debt on date d, of the
\* given amount: the one it held before, or a new one.
OneMinEvent(name, d, amount) ==
    /\ Cardinality(MinEventsOn(events', name, d)) = 1
    /\ \A j \in MinEventsOn(events', name, d) : events'[j].amount = amount
    /\ Len(events') = Len(events) + (IF MinEventsOn(events, name, d) = {} THEN 1 ELSE 0)

\* The step has applied a debt_add to the debt of index k, which has a due
\* date; new_min is the minimum recomputed from the debt with the charge.
MinimumFollowsCharge(k, new_min) ==
    new_min > 0 =>
        /\ debts'[k].minimum_payment = new_min
        /\ OneMinEvent(debts[k].name, NextDueFrom(debts[k].due_date, current_date), new_min)

\* C25: when a debt_add is applied on day t to a debt with a due date and
\* the minimum recomputed from the raised balance is > 0, minimum_payment
\* becomes that value and the event list holds exactly one debt_min event of
\* the debt on its next due date after t, of that amount (the existing event
\* rewritten, or else one inserted).
C25_MinimumAfterCharge ==
    [][(DebtAddApplied /\ debts[DebtIdx(debts, Head(others_today).debt)].due_date # NoDate)
          => MinimumFollowsCharge(
                 DebtIdx(debts, Head(others_today).debt),
                 compute_min_payment(
                     [debts'[DebtIdx(debts, Head(others_today).debt)]
                         EXCEPT !.minimum_payment =
                                    debts[DebtIdx(debts, Head(others_today).debt)].minimum_payment],
                     current_date))]_vars

\* A charge has just been logged for a debt with a formula, whose coming
\* debt_min event now carries a minimum other than the one given as input.
C25_Witness ==
    /\ schedule # <<>> /\ pc \in {"others", "project"}
    /\ schedule[Len(schedule)].type = "debt_add"
    /\ schedule[Len(schedule)].date = current_date
    /\ Len(schedule[Len(schedule)].description) = 1
    /\ \E k \in DOMAIN debts :
          /\ RefersTo(schedule[Len(schedule)], debts[k].name)
          /\ debts[k].min_payment_formula = "credit_card"
          /\ debts[k].minimum_payment # inputs.debts_input[k].minimum_payment
          /\ \E j \in MinEventsOn(events, debts[k].name,
                                  NextDueFrom(debts[k].due_date, current_date)) :
                 j > i /\ events[j].amount = debts[k].minimum_payment

\* ------------------------------------------------------------------------
\* The projection's reserve for a minimum payment that a charge will change

\* The event is a debt_add or a debt_min of the debt.
Concerns(e, name) ==
    \/ e.type = "debt_add" /\ e.debt = name
    \/ e.type = "debt_min" /\ (IF e.debt # "" THEN e.debt ELSE e.name) = name

\* Among the remaining events (after position i) the first that concerns
\* the debt is the debt_add at position a, and the next is the debt_min at
\* position m.
ChargeBeforeMin(name, a, m) ==
    /\ i < a /\ a < m
    /\ events[a].type = "debt_add" /\ events[m].type = "debt_min"
    /\ Concerns(events[a], name) /\ Concerns(events[m], name)
    /\ \A j \in (i + 1)..(m - 1) : j # a => ~Concerns(events[j], name)

\* The outflow the projection enters for that debt_min (lines 459-483).
ReservedFor(d, add) == PendingMin(d, d.balance + add.amount, add.date)

\* The minimum of the debt recomputed with the charge added to its balance:
\* what lines 330-338 set when they apply the debt_add to this debt.
MinimumWith(d, add) ==
    compute_min_payment([d EXCEPT !.balance = @ + add.amount], add.date)

\* C26: when a debt_add for a debt comes before the debt's next debt_min
\* event, the outflow the projection uses for that debt_min is the minimum
\* recomputed from the balance after the charge, never less than the minimum
\* the scheduler sets for that due date when it applies the charge, for a
\* debt with a formula and for one with a fixed minimum alike.
C26_ReserveForChangedMinimum ==
    pc = "project" =>
        \A k \in DOMAIN debts : \A a, m \in DOMAIN events :
            ChargeBeforeMin(debts[k].name, a, m)
                => ReservedFor(debts[k], events[a]) >= MinimumWith(debts[k], events[a])

\* ------------------------------------------------------------------------
\* Calls with a grace-period (apple_card) debt that takes charges

GraceDays == 45

\* Debt A is the grace-period debt: empty with its due date after the
\* charges, empty with its due date before them, empty with a due date
\* already past, and carrying a balance.  Debt B bears interest at a higher
\* rate and draws the extra payments first.
GraceDebtLists(S) ==
    { << DebtIn("A", bal, 73, 0, due, "apple_card", "apple_card"),
         DebtIn("B", 100 * Dollar, 146, 0, NoDate, "", "credit_card") >> :
      <<bal, due>> \in { <<0, S + 10>>, <<0, S + 1>>, <<0, S - 5>>, <<100 * Dollar, S + 10>> } }

\* Two charges to A before its due date, or one charge and a bill paid in
\* cash.
GraceBillLists(S) ==
    { << [name |-> "Charge", amount |-> 40 * Dollar, date |-> S + 2, debt |-> "A"],
         [name |-> "Charge2", amount |-> 30 * Dollar, date |-> S + 5, debt |-> "A"] >>,
      << [name |-> "Charge", amount |-> 40 * Dollar, date |-> S + 2, debt |-> "A"],
         [name |-> "Bill", amount |-> 40 * Dollar, date |-> S + 3, debt |-> ""] >> }

GraceInputs ==
    [start : {Today}, days : {GraceDays}, debug : {FALSE},
     starting_balance : {0, 30 * Dollar, 300 * Dollar},
     paychecks : { <<>>,
                   << [name |-> "Paycheck", amount |-> 60 * Dollar, date |-> Today,
                       frequency |-> "biweekly"] >> },
     bills : GraceBillLists(Today),
     goals : {<<>>},
     debts_input : GraceDebtLists(Today)]

InitGrace ==
    /\ \E inp \in GraceInputs : StartsAs(inp, [inp EXCEPT !.debug = ~@])
    /\ probe = NoProbe

SpecGrace == InitGrace /\ [][Next]_vars

\* ------------------------------------------------------------------------
\* When interest reaches the balance

\* The entries the step logs as interest billed to the debt called name.
InterestEntries(name) ==
    { e \in (Len(schedule) + 1)..Len(schedule') :
        schedule'[e].type = "debt_add" /\ schedule'[e].description = <<name, " interest">> }

\* The month-end step for one debt, x being its unbilled buffer rounded to
\* cents.
BilledAtMonthEnd(k, x) ==
    IF x > 0
    THEN /\ debts'[k].balance = debts[k].balance + x
         /\ debts'[k].interest_charges = debts[k].interest_charges + x
         /\ debts'[k].interest_buffer = 0
         /\ Cardinality(InterestEntries(debts[k].name)) = 1
         /\ \A e \in InterestEntries(debts[k].name) :
                schedule'[e].amount = x /\ schedule'[e].date = current_date
    ELSE /\ debts'[k].balance = debts[k].balance
         /\ debts'[k].interest_charges = debts[k].interest_charges
         /\ InterestEntries(debts[k].name) = {}

MonthEndBillsInterest ==
    MonthEndBilled =>
        /\ IsMonthEnd(current_date)
        /\ balance' = balance
        /\ \A k \in DOMAIN debts : BilledAtMonthEnd(k, QuantizeCent(debts[k].interest_buffer))
        /\ Len(schedule') = Len(schedule)
               + Cardinality({k \in DOMAIN debts : QuantizeCent(debts[k].interest_buffer) > 0})

\* Outside the month-end step interest_charges never grows, a balance grows
\* only by a debt_add event, and nothing is logged as interest.
NoInterestElsewhere ==
    (InCall /\ pc # "month_end") =>
        \A k \in DOMAIN debts :
            /\ debts'[k].interest_charges <= debts[k].interest_charges
            /\ debts'[k].balance > debts[k].balance => pc = "others"
            /\ InterestEntries(debts[k].name) = {}

\* The daily accrual folds the pending charges of this debt today.
FoldsToday(d) ==
    d.interest_method = "apple_card" /\ d.due_date = current_date /\ d.grace_charges # <<>>

\* d2 differs from d1 in interest_buffer and interest_accrued at most.
OnlyAccrued(d1, d2) ==
    d2 = [d1 EXCEPT !.interest_buffer = d2.interest_buffer,
                    !.interest_accrued = d2.interest_accrued]

\* d2 differs from d1 in those two fields and in the three of the fold.
OnlyAccruedAndFolded(d1, d2) ==
    d2 = [d1 EXCEPT !.interest_buffer = d2.interest_buffer,
                    !.interest_accrued = d2.interest_accrued,
                    !.balance_subject_to_interest = d2.balance_subject_to_interest,
                    !.grace_charges = d2.grace_charges,
                    !.due_date = d2.due_date]

AccrualStep == InCall /\ pc = "accrue" /\ pc' # "error"

GraceCharge(k) ==
    /\ DebtAddApplied
    /\ Head(others_today).debt = debts[k].name
    /\ debts[k].interest_method = "apple_card"

\* The charge joins the pending list under its date and the interest-bearing
\* principal stays as it was.
HeldPending(k) ==
    /\ debts'[k].grace_charges =
           Append(debts[k].grace_charges,
                  << Head(others_today).date, Head(others_today).amount >>)
    /\ debts'[k].balance_subject_to_interest = debts[k].balance_subject_to_interest

\* The charge bears interest at once.
AddedToPrincipal(k) ==
    /\ debts'[k].grace_charges = debts[k].grace_charges
    /\ debts'[k].balance_subject_to_interest =
           debts[k].balance_subject_to_interest + Head(others_today).amount

\* The daily accrual of the due date moves the pending charges of debt k
\* into its principal.
FoldedIntoPrincipal(k) ==
    /\ AccrualStep /\ FoldsToday(debts[k])
    /\ debts'[k].balance_subject_to_interest =
           debts[k].balance_subject_to_interest + GraceSum(debts[k].grace_charges)

\* The day's interest of a debt that does not fold today is taken on its
\* interest-bearing principal alone, whatever is pending.
NoInterestOnPending(k) ==
    (AccrualStep /\ ~FoldsToday(debts[k])) =>
        debts'[k].interest_buffer =
            debts[k].interest_buffer
            + (IF debts[k].balance_subject_to_interest > 0
               THEN InterestFor(debts[k].balance_subject_to_interest, debts[k].apr, 1)
               ELSE 0)

GraceDebts == {k \in DOMAIN debts : InCall /\ debts[k].interest_method = "apple_card"}

\* C28 as stated: every new charge on a grace-period debt is placed in the
\* pending list under its charge date and adds nothing to the
\* interest-bearing principal, which takes up charges only in the accrual of
\* the due date; what is pending bears no daily interest.
C28_EveryChargeHeldPending ==
    [][\A k \in GraceDebts :
           /\ GraceCharge(k) => HeldPending(k)
           /\ debts'[k].balance_subject_to_interest > debts[k].balance_subject_to_interest
                  => FoldedIntoPrincipal(k)
           /\ NoInterestOnPending(k)]_vars

\* C28 amended: a new charge on a grace-period debt whose interest-bearing
\* principal is zero is placed in the pending list under its charge date and
\* adds nothing to the principal; a charge on one that carries principal is
\* added to the principal at once.  Apart from such a charge the principal
\* grows only in the accrual of the due date, and what is pending bears no
\* daily interest.
C28_ChargeHeldWhenNothingOwed ==
    [][\A k \in GraceDebts :
           /\ GraceCharge(k) =>
                  IF debts[k].balance_subject_to_interest = 0
                  THEN HeldPending(k)
                  ELSE AddedToPrincipal(k)
           /\ debts'[k].balance_subject_to_interest > debts[k].balance_subject_to_interest
                  => \/ FoldedIntoPrincipal(k)
                     \/ GraceCharge(k) /\ debts[k].balance_subject_to_interest # 0
           /\ NoInterestOnPending(k)]_vars

\* A charge is pending on a debt without principal, days after it was made
\* and before the due date, and no interest has accrued on the debt.
C28_Witness ==
    /\ pc = "accrue"
    /\ \E k \in DOMAIN debts :
           /\ debts[k].interest_method = "apple_card"
           /\ debts[k].balance_subject_to_interest = 0
           /\ debts[k].interest_accrued = 0
           /\ debts[k].grace_charges # <<>>
           /\ debts[k].grace_charges[1][1] < current_date
           /\ current_date < debts[k].due_date

\* The first monthly recurrence of a due date on or after day t.
DueOnOrAfter(due, t) == NextDueFrom(due, t - 1)

\* No pending charge of the debt has outlived the first due date on or
\* after the day it was made.
PendingWithinGrace(d) ==
    \A c \in DOMAIN d.grace_charges :
        current_date <= DueOnOrAfter(d.due_date, d.grace_charges[c][1])

\* The accrual of the due date: the charges still pending bear interest for
\* the days since they were made, that of the charge and the due date
\* included, the list is emptied and the due date moves on one month.
FoldedWithRetro(k) ==
    (AccrualStep /\ FoldsToday(debts[k])) =>
        /\ debts'[k].interest_accrued =
               debts[k].interest_accrued
               + (IF debts[k].balance_subject_to_interest > 0
                  THEN InterestFor(debts[k].balance_subject_to_interest, debts[k].apr, 1)
                  ELSE 0)
               + GraceRetro(debts[k].grace_charges, debts[k].apr, current_date)
        /\ debts'[k].balance_subject_to_interest =
               debts[k].balance_subject_to_interest + GraceSum(debts[k].grace_charges)
        /\ debts'[k].grace_charges = <<>>
        /\ debts'[k].due_date = AddMonth(debts[k].due_date)

\* C29: every charge pending on a grace-period debt is resolved by the
\* close of the first due date on or after the day of the charge: it has
\* been paid, or the accrual of that day has folded it into the
\* interest-bearing principal with interest amount * apr / 36500 * days for
\* the days since the charge, emptied the pending list and advanced the due
\* date by one month.
C29_PendingResolvedAtDueDate ==
    /\ [](\A k \in DOMAIN debts :
             (debts[k].interest_method = "apple_card" /\ debts[k].due_date # NoDate)
                 => PendingWithinGrace(debts[k]))
    /\ [][\A k \in GraceDebts : FoldedWithRetro(k)]_vars

\* ------------------------------------------------------------------------
\* Where a payment goes

\* The step pays a minimum (a debt_min event) or an extra payment.
PaymentStep ==
    /\ InCall /\ pc' # "error"
    /\ \/ pc = "others" /\ Head(others_today).type = "debt_min"
       \/ pc = "project"

\* What the step paid to debt k.
PaidTo(k) == debts[k].balance - debts'[k].balance

\* after is what is left of the list before when its first charges are
\* paid in full and the next one at most in part, under its own date.
OldestFirst(before, after) ==
    /\ Len(after) <= Len(before)
    /\ \A j \in DOMAIN after :
           LET c == before[Len(before) - Len(after) + j]
           IN  /\ after[j][1] = c[1]
               /\ after[j][2] > 0
               /\ IF j = 1 THEN after[j][2] <= c[2] ELSE after[j][2] = c[2]

\* A payment of p to debt k: billed interest first, then the
\* interest-bearing principal, then the pending charges in their order.
Allocated(k, p) ==
    LET ipay == Min2(p, debts[k].interest_charges)
        ppay == Min2(p - ipay, debts[k].balance_subject_to_interest)
        gpay == Min2(p - ipay - ppay, GraceSum(debts[k].grace_charges))
    IN  /\ debts'[k].interest_charges = debts[k].interest_charges - ipay
        /\ debts'[k].balance_subject_to_interest =
               debts[k].balance_subject_to_interest - ppay
        /\ GraceSum(debts'[k].grace_charges) = GraceSum(debts[k].grace_charges) - gpay
        /\ OldestFirst(debts[k].grace_charges, debts'[k].grace_charges)
        /\ debts'[k].balance_subject_to_interest < debts[k].balance_subject_to_interest
               => debts'[k].interest_charges = 0
        /\ debts'[k].grace_charges # debts[k].grace_charges
               => /\ debts'[k].interest_charges = 0
                  /\ debts'[k].balance_subject_to_interest = 0

\* The log entry of the step names debt k and the amount p as paid.
LoggedPayment(k, p) ==
    /\ Len(schedule') = Len(schedule) + 1
    /\ Last(schedule').amount = 0 - p
    /\ Last(schedule').type =
           (IF pc = "project" THEN "extra" ELSE "debt_min")
    /\ RefersTo(Last(schedule'), debts[k].name)

\* C30: a payment of p to a debt, minimum or extra alike, takes p off the
\* debt's balance and is allocated to the billed-interest counter first,
\* then to the interest-bearing principal, then to the pending grace
\* charges oldest first; a later bucket shrinks only when the earlier ones
\* are at zero, and a grace charge paid in part keeps its date.
C30_PaymentAllocation ==
    [][PaymentStep =>
         \A k \in DOMAIN debts :
             /\ PaidTo(k) >= 0
             /\ Allocated(k, PaidTo(k))
             /\ (PaidTo(k) > 0 /\ pc' # "raised") => LoggedPayment(k, PaidTo(k))
             /\ (pc' # "raised" /\ Len(schedule') > Len(schedule))
                    => \E t \in DOMAIN debts : LoggedPayment(t, PaidTo(t))]_vars

\* A grace-period debt without billed interest or principal holds a first
\* pending charge that was paid in part, under its own date, and a second
\* one untouched.
C30_Witness ==
    \E k \in DOMAIN debts :
        /\ debts[k].interest_method = "apple_card"
        /\ debts[k].interest_charges = 0
        /\ debts[k].balance_subject_to_interest = 0
        /\ Len(debts[k].grace_charges) = 2
        /\ debts[k].grace_charges[1][1] = Today + 2
        /\ debts[k].grace_charges[1][2] < 40 * Dollar
        /\ debts[k].grace_charges[2] = << Today + 5, 30 * Dollar >>

\* ------------------------------------------------------------------------
\* The card-specific minimum payment

\* One hundred times 1 % * (regular balance - unpaid adjustment) + unpaid
\* adjustment, the regular balance being balance - financing balance.
HundredfoldBase(d) ==
    (d.balance - d.min_payment_args.financing_balance
               - d.min_payment_args.unpaid_daily_cash)
    + 100 * d.min_payment_args.unpaid_daily_cash

\* b is x100 / 100 rounded up to whole dollars.
IsCeilDollar(b, x100) ==
    /\ b % Dollar = 0
    /\ 100 * b >= x100
    /\ 100 * (b - Dollar) < x100

\* What is added to the rounded base.
AddedOnTop(d) ==
    d.min_payment_args.interest_billed + d.min_payment_args.installment_due
    + d.min_payment_args.past_due

\* The whole-dollar amounts a base can be, for the probed balances.
BaseRange == { n * Dollar : n \in 0..40 }

AppleCardReturned == probe.fn = "apple_card" /\ probe.returned

AnchoredDates(anchor, start, end) ==
    { d \in Max2(anchor, start)..end : DayOf(d) = Min2(DayOf(anchor), MonthLenOf(d)) }

\* AddMonth(d) lies in the month after that of d, on d's day clamped to the
\* length of that month.
InFollowingMonth(d) ==
    /\ IF MonthOf(d) = 12
       THEN MonthOf(AddMonth(d)) = 1 /\ YearOf(AddMonth(d)) = YearOf(d) + 1
       ELSE MonthOf(AddMonth(d)) = MonthOf(d) + 1 /\ YearOf(AddMonth(d)) = YearOf(d)
    /\ DayOf(AddMonth(d)) = Min2(DayOf(d), MonthLenOf(AddMonth(d)))

\* C32: a monthly income, a monthly bill and a debt due date anchored on
\* day a occur, in every month of the window, on day min(a, length of the
\* month), and add_month moves a date into the following month, December
\* into January of the next year, with the day clamped to that month's
\* length.
C32_MonthlyKeepsAnchorDay ==
    (probe.fn = "_build_events" /\ probe.returned) =>
        /\ probe.paychecks[1].frequency = "monthly" =>
               DatesOf(probe.out, {"paycheck"})
                   = AnchoredDates(probe.paychecks[1].date, probe.start, probe.end)
        /\ DatesOf(probe.out, {"bill", "debt_add"})
               = AnchoredDates(probe.bills[1].date, probe.start, probe.end)
        /\ (probe.ds[1].due_date # NoDate /\ probe.ds[1].minimum_payment > 0) =>
               DatesOf(probe.out, {"debt_min"})
                   = AnchoredDates(probe.ds[1].due_date, probe.start, probe.end)
        /\ \A k \in DOMAIN probe.out : InFollowingMonth(probe.out[k].date)

\* ------------------------------------------------------------------------
\* The log and the window

\* The log is in date order and every entry is dated within the window.
LogOrderedInWindow ==
    /\ \A j, k \in DOMAIN schedule : j < k => schedule[j].date <= schedule[k].date
    /\ \A k \in DOMAIN schedule :
           inputs.start <= schedule[k].date /\ schedule[k].date <= inputs.start + inputs.days

\* The events taken from the list so far are those dated up to the current
\* day, which is no later than the day after the window: what was generated
\* for the look-ahead stays in the list.
LookaheadUntouched ==
    /\ current_date <= inputs.start + inputs.days + 1
    /\ \A k \in 1..i : events[k].date <= current_date
                         /\ events[k].date <= inputs.start + inputs.days
    /\ \A k \in (i + 1)..Len(events) : events[k].date >= current_date
    /\ \A e \in DOMAIN paychecks_today : paychecks_today[e].date = current_date
    /\ \A e \in DOMAIN others_today : others_today[e].date = current_date

\* C33: the schedule log is append-only and ordered: its entries are
\* non-decreasing by date and dated within [start, start + days], and the
\* events generated for the look-ahead after start + days are never applied
\* or logged.
C33_LogOrderedInWindow ==
    /\ [](LogOrderedInWindow /\ LookaheadUntouched)
    /\ [][InCall => IsPrefix(schedule, schedule')]_vars

\* A call has returned with entries of three different days in its log and
\* with look-ahead events left in the list.
C33_Witness ==
    /\ pc = "done" /\ i < Len(events)
    /\ events[Len(events)].date > inputs.start + inputs.days
    /\ \E a, b, c \in DOMAIN schedule :
           schedule[a].date < schedule[b].date /\ schedule[b].date < schedule[c].date

\* ------------------------------------------------------------------------
\* Termination

\* A step can be taken: a call is under way, or the second call is still to
\* be made.
CanStep == InCall \/ first.pc = "none"

\* The program runs on: weak fairness of Next, WF_vars(Next), with
\* ENABLED <<Next>>_vars written out as the state predicate CanStep.
RunsOn == []<>(~CanStep) \/ []<><<Next>>_vars

SpecFair == SpecGrace /\ RunsOn

\* Each pass of the day loop starts at "day", does not come back to "day"
\* before its end, and ends by moving current_date on by one day.
DayByDay ==
    InCall =>
        /\ pc = "day" => (pc' # "day" /\ current_date' = current_date)
        /\ IF pc' = "day"
           THEN pc \in {"accrue", "month_end"} /\ current_date' = current_date + 1
           ELSE current_date' = current_date

\* C34: every call terminates: it raises an error or returns, and it returns
\* after exactly days + 1 passes of the day loop, one for each day from
\* start to start + days.
C34_EveryCallTerminates ==
    /\ InCall ~> ~InCall
    /\ [](/\ inputs.start <= current_date
          /\ current_date <= inputs.start + inputs.days + 1
          /\ pc = "done" => current_date = inputs.start + inputs.days + 1)
    /\ [][DayByDay]_vars

\* The first call raised an error before its last day and the second call
\* has returned after its last day.
C34_Witness ==
    /\ pc = "done" /\ current_date = inputs.start + inputs.days + 1
    /\ first.pc = "raised" /\ first.current_date < inputs.start + inputs.days
    /\ inputs.days = GraceDays

\* ------------------------------------------------------------------------
\* The ledger

\* The running balance before entry k of the log.
BalanceBefore(k) == IF k = 1 THEN inputs.starting_balance ELSE schedule[k - 1].balance

\* Entry k carries the balance before it plus its signed amount, or the
\* balance before it if it is a charge to a debt, and its amount has the
\* sign of its kind.
EntryConsistent(k) ==
    LET e == schedule[k]
    IN  /\ e.type \in {"paycheck", "bill", "goal", "debt_min", "extra", "debt_add"}
        /\ e.type = "debt_add" => e.balance = BalanceBefore(k)
        /\ e.type # "debt_add" => e.balance = BalanceBefore(k) + e.amount
        /\ e.type = "paycheck" => e.amount > 0
        /\ e.type \in {"bill", "goal", "debt_min", "extra"} => e.amount < 0

\* C35: ledger consistency: each entry's running balance is the previous
\* one (the starting balance for the first entry) plus the entry's signed
\* amount for paycheck, bill, goal, debt_min and extra entries, and the
\* previous one unchanged for debt_add entries; paycheck amounts are logged
\* positive, bill, goal, debt_min and extra amounts negative; the last
\* entry's balance is the cash balance.
C35_LedgerConsistent ==
    /\ \A k \in DOMAIN schedule : EntryConsistent(k)
    /\ (InCall \/ pc = "done") =>
           balance = (IF schedule = <<>> THEN inputs.starting_balance
                      ELSE Last(schedule).balance)

\* A returned call whose log holds a paycheck, a bill, a minimum payment, an
\* extra payment and a charge to a debt.
C35_Witness ==
    /\ pc = "done"
    /\ \A t \in {"paycheck", "bill", "debt_min", "extra", "debt_add"} :
           \E k \in DOMAIN schedule : schedule[k].type = t

\* ------------------------------------------------------------------------
\* Conservation

\* The entry is a payment to the debt called name, a charge to it, or
\* interest billed to it.
Moves(e, name) ==
    \/ RefersTo(e, name)
    \/ e.type = "debt_add" /\ e.description = <<name, " interest">>

\* The sum of the signed amounts of the entries that concern the debt:
\* charges and billed interest count up, payments down.
RECURSIVE NetLogged(_, _)
NetLogged(sched, name) ==
    IF sched = <<>> THEN 0
    ELSE (IF Moves(Head(sched), name) THEN Head(sched).amount ELSE 0)
         + NetLogged(Tail(sched), name)

\* C36: debt conservation: while a call runs and when it has returned, each
\* debt's balance is its initial balance plus the charges applied and the
\* interest billed to it minus the minimum and extra payments logged for
\* it, so every unit logged as paid to a debt has come off its balance.
C36_DebtConservation ==
    (InCall \/ pc = "done") =>
        \A k \in DOMAIN debts :
            debts[k].balance =
                inputs.debts_input[k].balance + NetLogged(schedule, debts[k].name)

\* A returned call that charged a debt, billed interest to it and paid it a
\* minimum and an extra payment.
C36_Witness ==
    /\ pc = "done"
    /\ \E k \in DOMAIN debts :
           /\ \A t \in {"debt_min", "extra"} :
                  \E e \in DOMAIN schedule :
                      schedule[e].type = t /\ RefersTo(schedule[e], debts[k].name)
           /\ \E e \in DOMAIN schedule :
                  schedule[e].type = "debt_add" /\ RefersTo(schedule[e], debts[k].name)
           /\ \E e \in DOMAIN schedule :
                  schedule[e].description = <<debts[k].name, " interest">>

\* ------------------------------------------------------------------------
\* The caller's dictionaries

\* The step makes the second call.
SecondCallMade == ~InCall /\ first.pc = "none"

RECURSIVE PendingTotal(_)
PendingTotal(gc) == IF gc = <<>> THEN 0 ELSE gc[1][2] + PendingTotal(Tail(gc))

Partitioned(d) ==
    /\ d.balance = d.interest_charges + d.balance_subject_to_interest
                   + PendingTotal(d.grace_charges)
    /\ d.interest_charges >= 0
    /\ d.balance_subject_to_interest >= 0
    /\ \A c \in DOMAIN d.grace_charges : d.grace_charges[c][2] >= 0

\* C38: in every reachable state each debt's balance is its billed-interest
\* counter plus its interest-bearing principal plus the sum of its pending
\* grace charges, and none of these parts is negative.
C38_BalancePartition == \A k \in DOMAIN debts : Partitioned(debts[k])

\* A grace-period debt owes billed interest and a pending charge, and no
\* principal.
C38_Witness ==
    \E k \in DOMAIN debts :
        /\ debts[k].interest_charges > 0
        /\ debts[k].grace_charges # <<>>
        /\ debts[k].balance_subject_to_interest = 0

\* ------------------------------------------------------------------------
\* The event list under patching

\* The step recomputes minimums and patches the event list: a charge is
\* applied or the month end bills interest.
PatchStep == DebtAddApplied \/ MonthEndBilled

SortedByDate(evs) == \A k \in 1..(Len(evs) - 1) : evs[k].date <= evs[k + 1].date

\* The debt a debt_min event is for: ev.debt or ev.name.
DebtOf(e) == IF e.debt # "" THEN e.debt ELSE e.name

\* The positions of the debt_min events of a list.
MinEvents(evs) == { j \in DOMAIN evs : evs[j].type = "debt_min" }

NoTwoAlike(evs, M) ==
    \A j, k \in M :
        (j < k /\ evs[j].date = evs[k].date) => DebtOf(evs[j]) # DebtOf(evs[k])

OneMinPerDebtAndDate(evs) == NoTwoAlike(evs, MinEvents(evs))

\* The list after a patch on day today with the cursor at n.
WellFormedAfterPatch(before, after, n, today) ==
    /\ SortedByDate(after)
    /\ OneMinPerDebtAndDate(after)
    /\ \A k \in (n + 1)..Len(after) : after[k].date > today
    /\ Len(after) >= Len(before)
    /\ SubSeq(after, 1, n) = SubSeq(before, 1, n)

\* C39: the event list stays well-formed under in-place patching: after
\* every patch or insertion it is sorted by date, every event not yet
\* consumed is dated after the current day, no consumed event has changed,
\* and there is at most one debt_min event per debt and date.
C39_EventListWellFormed ==
    /\ [](SortedByDate(events) /\ OneMinPerDebtAndDate(events))
    /\ [][PatchStep => (i' = i /\ WellFormedAfterPatch(events, events', i, current_date))]_vars

\* The list holds an event more than when the call began, and a debt_min
\* event still to come carries an amount other than its debt's input
\* minimum.
C39_Witness ==
    /\ InCall
    /\ Len(events) > Len(InitRun(inputs).events)
    /\ \E j \in (i + 1)..Len(events) : \E k \in DOMAIN debts :
           /\ events[j].type = "debt_min" /\ DebtOf(events[j]) = debts[k].name
           /\ events[j].amount # inputs.debts_input[k].minimum_payment

\* ------------------------------------------------------------------------
\* What a patch leaves alone

\* The debts the step patches, each with its next due date: the debt
\* charged, or the debts with a due date that the month end bills.
PatchTargets ==
    IF pc = "month_end"
    THEN { <<debts[k].name, NextDueFrom(debts[k].due_date, current_date)>> :
             k \in { n \in DOMAIN debts : /\ debts[n].due_date # NoDate
                                          /\ QuantizeCent(debts[n].interest_buffer) > 0 } }
    ELSE { <<debts[k].name, NextDueFrom(debts[k].due_date, current_date)>> :
             k \in { n \in DOMAIN debts : /\ debts[n].due_date # NoDate
                                          /\ debts[n].name = Head(others_today).debt } }

\* The event is the debt_min event of one of the targets T.
IsTarget(e, T) == e.type = "debt_min" /\ <<DebtOf(e), e.date>> \in T

\* The events of a list other than those of the targets, in their order.
OtherEvents(evs, T) == SelectSeq(evs, LAMBDA e : ~IsTarget(e, T))

\* The events of the targets, with the amounts left out.
TargetEvents(evs, T) ==
    SelectSeq([j \in DOMAIN evs |-> [evs[j] EXCEPT !.amount = 0]],
              LAMBDA e : IsTarget(e, T))

\* The step changed at most the amounts of the targets' events, or added
\* such an event where there was none: every other event is as it was and
\* where it was among the others, and none was removed.
OnlyTargetsPatched(T) ==
    /\ OtherEvents(events', T) = OtherEvents(events, T)
    /\ IsPrefix(TargetEvents(events, T), TargetEvents(events', T))
    /\ \A t \in T : Cardinality(MinEventsOn(events', t[1], t[2])) <= 1
    /\ Len(events') - Len(events) <= Cardinality(T)

\* C40: a minimum-payment patch changes nothing but its target: when a
\* charge or the billing of interest patches a debt, only the amount of the
\* debt's debt_min event on its next due date is rewritten, or one such
\* event is inserted; no event is removed and every other event, those of
\* other debts and the debt's own debt_min events of later due dates
\* included, keeps its date, kind and amount.  No other step changes the
\* list.
C40_PatchOnlyTarget ==
    [][/\ PatchStep => OnlyTargetsPatched(PatchTargets)
       /\ (InCall /\ ~PatchStep) => events' = events]_vars

\* A debt's coming debt_min event carries its recomputed minimum while its
\* debt_min event of the month after still carries the minimum given as
\* input.
C40_Witness ==
    /\ InCall
    /\ \E k \in DOMAIN debts : \E a, b \in (i + 1)..Len(events) :
           /\ a < b
           /\ events[a].type = "debt_min" /\ DebtOf(events[a]) = debts[k].name
           /\ events[b].type = "debt_min" /\ DebtOf(events[b]) = debts[k].name
           /\ events[a].date = NextDueFrom(debts[k].due_date, current_date)
           /\ events[a].amount = debts[k].minimum_payment
           /\ events[a].amount # inputs.debts_input[k].minimum_payment
           /\ events[b].amount = inputs.debts_input[k].minimum_payment

====
